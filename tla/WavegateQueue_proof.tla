------------------------ MODULE WavegateQueue_proof ------------------------
(***************************************************************************)
(* Proofs about WavegateQueue: types, that a message is held at one place  *)
(* at most, that none is lost, and that the entries of the queue do not    *)
(* outnumber the tasks and remote calls behind them, for any number of     *)
(* messages and whatever loops the adapters run on; and that the queue     *)
(* implements Mailbox.                                                     *)
(***************************************************************************)
EXTENDS WavegateQueue, FiniteSetTheorems, TLAPS

-----------------------------------------------------------------------------
(* Sequences of sets: entries of the queue.                                *)

Entries == (SUBSET Messages) \ {{}}

LEMMA EntryIs == \A e : e \in Entries <=> e \subseteq Messages /\ e # {}
  BY DEF Entries

\* The messages in the entries of a queue.
Held(q) == UNION ToSet(q)

LEMMA HeldIn == ASSUME NEW q PROVE \A m : m \in Held(q) <=> \E i \in DOMAIN q : m \in q[i]
  BY DEF Held, ToSet

LEMMA QueueIs == InQueue = Held(queue)
  BY DEF InQueue, Held

\* No two entries share a message.
Apart(q) == \A i, j \in DOMAIN q : i # j => q[i] \cap q[j] = {}

LEMMA AppendEntry ==
    ASSUME NEW q \in Seq(Entries), NEW e \in Entries
    PROVE  /\ Append(q, e) \in Seq(Entries) /\ Len(Append(q, e)) = Len(q) + 1
           /\ Held(Append(q, e)) = Held(q) \cup e
           /\ Apart(q) /\ e \cap Held(q) = {} => Apart(Append(q, e))
<1> DEFINE r == Append(q, e)
<1>1. /\ r \in Seq(Entries) /\ Len(r) = Len(q) + 1 /\ r[Len(q) + 1] = e
      /\ \A i \in DOMAIN q : r[i] = q[i]
      /\ DOMAIN r = DOMAIN q \cup {Len(q) + 1} /\ Len(q) + 1 \notin DOMAIN q
  OBVIOUS
<1> HIDE DEF r
<1>2. Held(r) = Held(q) \cup e
  BY <1>1, HeldIn
<1>3. ASSUME Apart(q), e \cap Held(q) = {} PROVE Apart(r)
  <2>1. \A i \in DOMAIN q : q[i] \cap e = {}
    BY <1>3, HeldIn
  <2> QED
    BY <1>1, <1>3, <2>1 DEF Apart
<1> QED
  BY <1>1, <1>2, <1>3 DEF r

LEMMA PrependEntry ==
    ASSUME NEW q \in Seq(Entries), NEW e \in Entries
    PROVE  /\ <<e>> \o q \in Seq(Entries) /\ Len(<<e>> \o q) = Len(q) + 1
           /\ Held(<<e>> \o q) = Held(q) \cup e
           /\ Apart(q) /\ e \cap Held(q) = {} => Apart(<<e>> \o q)
<1> DEFINE r == <<e>> \o q
<1>1. /\ r \in Seq(Entries) /\ Len(r) = Len(q) + 1
      /\ \A i \in DOMAIN r : r[i] = IF i = 1 THEN e ELSE q[i - 1]
  OBVIOUS
<1>2. /\ Len(q) \in Nat /\ DOMAIN q = 1..Len(q) /\ DOMAIN r = 1..(Len(q) + 1)
  BY <1>1
<1> HIDE DEF r
<1>3. /\ 1 \in DOMAIN r /\ r[1] = e
      /\ \A i \in DOMAIN q : i + 1 \in DOMAIN r /\ r[i + 1] = q[i]
      /\ \A i \in DOMAIN r : i = 1 \/ (i - 1 \in DOMAIN q /\ r[i] = q[i - 1])
  <2>1. \A i \in DOMAIN q : i + 1 \in DOMAIN r /\ i + 1 # 1 /\ (i + 1) - 1 = i
    BY <1>2
  <2>2. \A i \in DOMAIN r : i = 1 \/ i - 1 \in DOMAIN q
    BY <1>2
  <2> QED
    BY <1>1, <1>2, <2>1, <2>2
<1>4. Held(r) = Held(q) \cup e
  BY <1>3, HeldIn
<1>5. ASSUME Apart(q), e \cap Held(q) = {} PROVE Apart(r)
  <2>1. \A i \in DOMAIN q : q[i] \cap e = {}
    BY <1>5, HeldIn
  <2>2. ASSUME NEW i \in DOMAIN r, NEW j \in DOMAIN r, i # j, i # 1, j # 1
        PROVE  r[i] \cap r[j] = {}
    <3>1. i - 1 \in DOMAIN q /\ j - 1 \in DOMAIN q /\ i - 1 # j - 1
      BY <1>2, <2>2
    <3> QED
      BY <1>3, <1>5, <2>2, <3>1 DEF Apart
  <2> QED
    BY <1>3, <2>1, <2>2 DEF Apart
<1> QED
  BY <1>1, <1>4, <1>5 DEF r

LEMMA TailEntry ==
    ASSUME NEW q \in Seq(Entries), q # <<>>
    PROVE  /\ Head(q) \in Entries /\ Tail(q) \in Seq(Entries) /\ Len(Tail(q)) = Len(q) - 1
           /\ Held(q) = Held(Tail(q)) \cup Head(q)
           /\ Apart(q) => Apart(Tail(q)) /\ Head(q) \cap Held(Tail(q)) = {}
<1> DEFINE r == Tail(q)
<1>1. /\ r \in Seq(Entries) /\ Len(r) = Len(q) - 1 /\ Len(q) \in Nat /\ Len(q) # 0
      /\ \A i \in 1..Len(r) : r[i] = q[i + 1]
  OBVIOUS
<1>2. Head(q) = q[1] /\ DOMAIN q = 1..Len(q) /\ DOMAIN r = 1..(Len(q) - 1)
  BY <1>1
<1> HIDE DEF r
<1>3. /\ 1 \in DOMAIN q /\ q[1] \in Entries
      /\ \A i \in DOMAIN r : i + 1 \in DOMAIN q /\ i + 1 # 1 /\ r[i] = q[i + 1]
      /\ \A i \in DOMAIN q : i = 1 \/ (i - 1 \in DOMAIN r /\ q[i] = r[i - 1])
  <2>1. 1 \in DOMAIN q /\ q[1] \in Entries
    BY <1>1, <1>2
  <2>2. \A i \in DOMAIN r : i + 1 \in DOMAIN q /\ i + 1 # 1 /\ r[i] = q[i + 1]
    BY <1>1, <1>2
  <2>3. ASSUME NEW i \in DOMAIN q, i # 1 PROVE i - 1 \in DOMAIN r /\ q[i] = r[i - 1]
    <3>1. i - 1 \in DOMAIN r /\ (i - 1) + 1 = i
      BY <1>1, <1>2, <2>3
    <3> QED
      BY <2>2, <3>1
  <2> QED
    BY <2>1, <2>2, <2>3
<1>4. Held(q) = Held(r) \cup q[1]
  BY <1>3, HeldIn
<1>5. ASSUME Apart(q) PROVE Apart(r) /\ q[1] \cap Held(r) = {}
  <2>1. ASSUME NEW i \in DOMAIN r, NEW j \in DOMAIN r, i # j PROVE r[i] \cap r[j] = {}
    <3>1. i + 1 # j + 1
      BY <1>1, <1>2, <2>1
    <3> QED
      BY <1>3, <1>5, <2>1, <3>1 DEF Apart
  <2>2. \A i \in DOMAIN r : q[1] \cap r[i] = {}
    BY <1>3, <1>5 DEF Apart
  <2>3. q[1] \cap Held(r) = {}
    BY <2>2, HeldIn
  <2> QED
    BY <2>1, <2>3 DEF Apart
<1> QED
  BY <1>1, <1>2, <1>3, <1>4, <1>5 DEF r

LEMMA NewQueues ==
    ASSUME NEW e \in Entries
    PROVE  /\ <<>> \in Seq(Entries) /\ Held(<<>>) = {} /\ Apart(<<>>)
           /\ <<e>> \in Seq(Entries) /\ Held(<<e>>) = e /\ Apart(<<e>>)
<1>1. DOMAIN <<>> = {} /\ DOMAIN <<e>> = {1} /\ <<e>>[1] = e
  OBVIOUS
<1>2. Held(<<>>) = {} /\ Held(<<e>>) = e
  BY <1>1, HeldIn
<1> QED
  BY <1>1, <1>2 DEF Apart

\* The collect buffer: its messages are different ones.
Different(b) == \A i, j \in DOMAIN b : i # j => b[i] # b[j]

LEMMA AppendFragment ==
    ASSUME NEW b \in Seq(Messages), NEW m \in Messages
    PROVE  /\ Append(b, m) \in Seq(Messages) /\ ToSet(Append(b, m)) = ToSet(b) \cup {m}
           /\ Append(b, m) # <<>>
           /\ Different(b) /\ m \notin ToSet(b) => Different(Append(b, m))
           /\ <<m>> \in Seq(Messages) /\ ToSet(<<m>>) = {m} /\ Different(<<m>>) /\ <<m>> # <<>>
           /\ ToSet(<<>>) = {} /\ Different(<<>>) /\ <<>> \in Seq(Messages)
<1> DEFINE r == Append(b, m)
<1>1. /\ r \in Seq(Messages) /\ r[Len(b) + 1] = m
      /\ \A i \in DOMAIN b : r[i] = b[i]
      /\ DOMAIN r = DOMAIN b \cup {Len(b) + 1} /\ Len(b) + 1 \notin DOMAIN b
      /\ r # <<>>
  OBVIOUS
<1>2. /\ <<m>> \in Seq(Messages) /\ DOMAIN <<m>> = {1} /\ <<m>>[1] = m /\ DOMAIN <<>> = {}
      /\ <<m>> # <<>> /\ <<>> \in Seq(Messages)
  OBVIOUS
<1>3. /\ ToSet(<<m>>) = {m} /\ Different(<<m>>) /\ ToSet(<<>>) = {} /\ Different(<<>>)
  BY <1>2 DEF ToSet, Different
<1> HIDE DEF r
<1>4. ToSet(r) = ToSet(b) \cup {m}
  BY <1>1 DEF ToSet
<1>5. ASSUME Different(b), m \notin ToSet(b) PROVE Different(r)
  <2>1. \A i \in DOMAIN b : b[i] # m
    BY <1>5 DEF ToSet
  <2> QED
    BY <1>1, <1>5, <2>1 DEF Different
<1> QED
  BY <1>1, <1>2, <1>3, <1>4, <1>5 DEF r

\* The merge of a buffer is an entry; text messages all get into it.
LEMMA MergeEntry ==
    ASSUME NEW b \in Seq(Messages), b # <<>>
    PROVE  /\ Merge(b) \in Entries /\ Merge(b) \subseteq ToSet(b)
           /\ ToSet(b) \subseteq TextMessages => Merge(b) = ToSet(b)
<1>1. Head(b) = b[1] /\ 1 \in DOMAIN b /\ \A i \in DOMAIN b : b[i] \in Messages
  OBVIOUS
<1>2. Head(b) \in ToSet(b) /\ ToSet(b) \subseteq Messages
  BY <1>1 DEF ToSet
<1>3. Merge(b) \subseteq ToSet(b) /\ Head(b) \in Merge(b)
  BY <1>2 DEF Merge
<1>4. Merge(b) \in Entries
  <2>1. Merge(b) \subseteq Messages /\ Merge(b) # {}
    BY <1>2, <1>3
  <2> QED
    BY <2>1, EntryIs
<1>5. ASSUME ToSet(b) \subseteq TextMessages PROVE Merge(b) = ToSet(b)
  <2>1. Head(b) \in TextMessages
    BY <1>2, <1>5
  <2>2. Merge(b) = ToSet(b) \cap TextMessages
    BY <2>1 DEF Merge
  <2> QED
    BY <1>5, <2>2
<1> QED
  BY <1>3, <1>4, <1>5

-----------------------------------------------------------------------------
(* What a step does to the queue, the buffer and what was dropped.         *)

Buffered == IF buffer = <<>> THEN 0 ELSE 1

\* The messages that no task took.
Around == Held(queue) \cup ToSet(buffer) \cup dropped

\* Each of them is at one place.
Orderly ==
    /\ Apart(queue)
    /\ Different(buffer)
    /\ Held(queue) \cap ToSet(buffer) = {}
    /\ (Held(queue) \cup ToSet(buffer)) \cap dropped = {}

Shapes ==
    /\ queue \in Seq(Entries)
    /\ buffer \in Seq(Messages)
    /\ tasks \in [Messages -> [at : TaskStates, entry : SUBSET Messages]]
    /\ accepted \subseteq Messages
    /\ remote \cup dropped \subseteq accepted
    /\ Held(queue) \subseteq accepted
    /\ ToSet(buffer) \subseteq remote
    /\ queuedCount \in Nat

\* Message m is taken in: it joins those around, of which only the merge of a
\* buffer with other than text in it loses one, and makes for one more entry.
Joins(m) ==
    /\ queue' \in Seq(Entries)
    /\ buffer' \in Seq(Messages)
    /\ ToSet(buffer') \subseteq ToSet(buffer) \cup {m}
    /\ dropped \subseteq dropped' /\ dropped' \subseteq dropped \cup Held(queue)
    /\ Around' \subseteq Around \cup {m}
    /\ m \in Around'
    /\ \A x \in Around \ Around' : x \in ToSet(buffer) /\ ~(ToSet(buffer) \subseteq TextMessages)
    /\ dropped' = dropped \/ Around \subseteq Around'
    /\ Orderly => Orderly'
    /\ Len(queue') + Buffered' <= Len(queue) + Buffered + 1
    /\ queuedCount' = queuedCount \/ queuedCount' \in 0..(Len(queue') + Buffered')

LEMMA MessageEntry == \A m \in Messages : {m} \in Entries
  BY EntryIs

LEMMA InterruptJoins ==
    ASSUME Shapes, NEW m \in Messages \ accepted, EnqueueInterrupt(m)
    PROVE  Joins(m)
<1>1. /\ queue' = <<{m}>> /\ queuedCount' = 1 /\ buffer' = buffer
      /\ dropped' = dropped \cup Held(queue)
  BY QueueIs DEF EnqueueInterrupt
<1>2. queue' \in Seq(Entries) /\ Held(queue') = {m} /\ Apart(queue') /\ Len(queue') = 1
  <2>1. {m} \in Entries
    BY MessageEntry
  <2>2. Len(<<{m}>>) = 1
    OBVIOUS
  <2> QED
    BY <1>1, <2>1, <2>2, NewQueues
<1>3. Buffered' = Buffered /\ Buffered \in {0, 1} /\ Len(queue) \in Nat
  BY <1>1 DEF Buffered, Shapes
<1>4. Around' = Around \cup {m}
  BY <1>1, <1>2 DEF Around
<1>5. Orderly => Orderly'
  BY <1>1, <1>2 DEF Orderly, Shapes
<1>6. m \in Around' /\ Around' \subseteq Around \cup {m} /\ Around \ Around' = {}
  BY <1>4
<1> QED
  BY <1>1, <1>2, <1>3, <1>5, <1>6 DEF Joins, Shapes

LEMMA AppendJoins ==
    ASSUME Shapes, NEW m \in Messages \ accepted, UNCHANGED <<buffer, dropped>>,
           queue' = Append(queue, {m}) \/ queue' = <<{m}>> \o queue,
           queuedCount' \in {1, Len(queue')}
    PROVE  Joins(m)
<1>1. {m} \in Entries /\ {m} \cap Held(queue) = {}
  BY MessageEntry DEF Shapes
<1>2. /\ queue' \in Seq(Entries) /\ Held(queue') = Held(queue) \cup {m}
      /\ Len(queue') = Len(queue) + 1 /\ (Apart(queue) => Apart(queue'))
  <2>1. CASE queue' = Append(queue, {m})
    BY <1>1, <2>1, AppendEntry DEF Shapes
  <2>2. CASE queue' = <<{m}>> \o queue
    BY <1>1, <2>2, PrependEntry DEF Shapes
  <2> QED
    BY <2>1, <2>2
<1>3. Buffered' = Buffered /\ Buffered \in {0, 1} /\ Len(queue) \in Nat
  BY DEF Buffered, Shapes
<1>4. Around' = Around \cup {m}
  BY <1>2 DEF Around
<1>5. Orderly => Orderly'
  BY <1>2 DEF Orderly, Shapes
<1>6. m \in Around' /\ Around' \subseteq Around \cup {m} /\ Around \ Around' = {}
  BY <1>4
<1> QED
  BY <1>2, <1>3, <1>5, <1>6 DEF Joins, Shapes

LEMMA CollectJoins ==
    ASSUME Shapes, NEW m \in Messages \ accepted, EnqueueCollect(m)
    PROVE  Joins(m)
<1>0. /\ buffer \in Seq(Messages) /\ queue \in Seq(Entries) /\ Len(queue) \in Nat
      /\ m \notin ToSet(buffer) /\ m \notin Held(queue) /\ m \notin dropped /\ dropped' = dropped
      /\ Buffered \in {0, 1}
  BY DEF Shapes, EnqueueCollect, Buffered
<1>1. CASE windowOpen
  <2>1. buffer' = Append(buffer, m) /\ queue' = queue /\ queuedCount' = queuedCount
    BY <1>1 DEF EnqueueCollect
  <2>2. /\ buffer' \in Seq(Messages) /\ ToSet(buffer') = ToSet(buffer) \cup {m}
        /\ (Different(buffer) => Different(buffer')) /\ buffer' # <<>>
    BY <1>0, <2>1, AppendFragment
  <2>3. Around' = Around \cup {m}
    BY <1>0, <2>1, <2>2 DEF Around
  <2>4. Orderly => Orderly'
    BY <1>0, <2>1, <2>2 DEF Orderly
  <2>5. Buffered' = 1
    BY <2>2 DEF Buffered
  <2>6. m \in Around' /\ Around' \subseteq Around \cup {m} /\ Around \ Around' = {}
    BY <2>3
  <2> QED
    BY <1>0, <2>1, <2>2, <2>4, <2>5, <2>6 DEF Joins
<1>2. CASE ~windowOpen
  <2>1. /\ queue' = IF buffer = <<>> THEN queue ELSE Append(queue, Merge(buffer))
        /\ buffer' = <<m>> /\ queuedCount' = Len(queue') + 1
    BY <1>2 DEF EnqueueCollect
  <2>2. /\ buffer' \in Seq(Messages) /\ ToSet(buffer') = {m} /\ Different(buffer')
        /\ buffer' # <<>>
    BY <1>0, <2>1, AppendFragment
  <2>3. Buffered' = 1
    BY <2>2 DEF Buffered
  <2>4. CASE buffer = <<>>
    <3>1. queue' = queue /\ ToSet(buffer) = {}
      BY <1>0, <2>1, <2>4, AppendFragment
    <3>2. Around' = Around \cup {m}
      BY <1>0, <2>2, <3>1 DEF Around
    <3>3. Orderly => Orderly'
      BY <1>0, <2>2, <3>1 DEF Orderly
    <3>4. m \in Around' /\ Around' \subseteq Around \cup {m} /\ Around \ Around' = {}
      BY <3>2
    <3> QED
      BY <1>0, <2>1, <2>2, <2>3, <3>1, <3>3, <3>4 DEF Joins
  <2>5. CASE buffer # <<>>
    <3>1. /\ Merge(buffer) \in Entries /\ Merge(buffer) \subseteq ToSet(buffer)
          /\ ToSet(buffer) \subseteq TextMessages => Merge(buffer) = ToSet(buffer)
      BY <1>0, <2>5, MergeEntry
    <3>2. queue' = Append(queue, Merge(buffer)) /\ Buffered = 1
      BY <2>1, <2>5 DEF Buffered
    <3>3. /\ queue' \in Seq(Entries) /\ Held(queue') = Held(queue) \cup Merge(buffer)
          /\ Len(queue') = Len(queue) + 1
          /\ Apart(queue) /\ Merge(buffer) \cap Held(queue) = {} => Apart(queue')
      BY <1>0, <3>1, <3>2, AppendEntry
    <3>4. Around' = Held(queue) \cup Merge(buffer) \cup {m} \cup dropped
      BY <1>0, <2>2, <3>3 DEF Around
    <3>5. Orderly => Orderly'
      BY <1>0, <2>2, <3>1, <3>3 DEF Orderly
    <3>6. /\ m \in Around' /\ Around' \subseteq Around \cup {m}
          /\ \A x \in Around \ Around' :
                x \in ToSet(buffer) /\ ~(ToSet(buffer) \subseteq TextMessages)
      BY <3>1, <3>4 DEF Around
    <3> QED
      BY <1>0, <2>1, <2>2, <2>3, <3>2, <3>3, <3>5, <3>6 DEF Joins
  <2> QED
    BY <2>4, <2>5
<1> QED
  BY <1>1, <1>2

\* enqueue() in each of its modes, and enqueue_immediate().
LEMMA EnqueueJoins ==
    ASSUME Shapes, NEW m \in Messages
    PROVE  /\ \A mode : Enqueue(m, mode) =>
                 /\ m \notin accepted /\ accepted' = accepted \cup {m} /\ Joins(m)
                 /\ mode \in AdapterModes => buffer' = buffer
           /\ EnqueueImmediate(m) =>
                 m \notin accepted /\ accepted' = accepted \cup {m} /\ Joins(m)
<1>1. ASSUME NEW mode, Enqueue(m, mode)
      PROVE  /\ m \notin accepted /\ accepted' = accepted \cup {m} /\ Joins(m)
             /\ mode \in AdapterModes => buffer' = buffer
  <2>1. m \notin accepted /\ accepted' = accepted \cup {m}
    BY <1>1 DEF Enqueue
  <2>2. CASE mode = "interrupt" /\ EnqueueInterrupt(m)
    BY <2>1, <2>2, InterruptJoins DEF AdapterModes
  <2>3. CASE mode = "collect" /\ EnqueueCollect(m)
    BY <2>1, <2>3, CollectJoins DEF AdapterModes
  <2>4. CASE EnqueueFollowup(m)
    BY <2>1, <2>4, AppendJoins DEF EnqueueFollowup
  <2>5. CASE EnqueueSteer(m)
    BY <2>1, <2>5, AppendJoins DEF EnqueueSteer
  <2> QED
    BY <1>1, <2>2, <2>3, <2>4, <2>5 DEF Enqueue
<1>2. ASSUME EnqueueImmediate(m)
      PROVE  m \notin accepted /\ accepted' = accepted \cup {m} /\ Joins(m)
  BY <1>2, AppendJoins DEF EnqueueImmediate
<1> QED
  BY <1>1, <1>2

-----------------------------------------------------------------------------
(* What a task does: it takes the first entry.                             *)

Expired == buffer # <<>> /\ ~windowOpen
Flushed == IF Expired THEN Append(queue, Merge(buffer)) ELSE queue

\* The entry that is handed to the agent leaves those around, and only the
\* merge loses messages on the way.
LEMMA DequeueTakes ==
    ASSUME Shapes, NEW t \in Messages, Dequeue(t)
    PROVE  LET entry == Head(Flushed) IN
           /\ tasks' = [tasks EXCEPT ![t] = [at |-> "running", entry |-> entry]]
           /\ entry \in Entries /\ entry \subseteq Held(queue) \cup ToSet(buffer)
           /\ queue' \in Seq(Entries) /\ buffer' \in {buffer, <<>>}
           /\ Held(queue') \subseteq Held(queue) \cup ToSet(buffer)
           /\ UNCHANGED dropped
           /\ Orderly => Orderly' /\ entry \cap Around' = {}
           /\ \A x \in Around \ (Around' \cup entry) :
                 x \in ToSet(buffer) /\ ~(ToSet(buffer) \subseteq TextMessages)
           /\ Len(queue') + Buffered' = Len(queue) + Buffered - 1
           /\ queuedCount' = Len(queue')
<1> DEFINE entry == Head(Flushed)
<1>0. /\ queue \in Seq(Entries) /\ buffer \in Seq(Messages) /\ Len(queue) \in Nat
      /\ ToSet(<<>>) = {} /\ Different(<<>>) /\ <<>> \in Seq(Messages)
  <2>1. queue \in Seq(Entries) /\ buffer \in Seq(Messages) /\ Len(queue) \in Nat
    BY DEF Shapes
  <2> QED
    BY <2>1, AppendFragment
<1>1. /\ Flushed # <<>> /\ queue' = Tail(Flushed)
      /\ buffer' = IF Expired THEN <<>> ELSE buffer
      /\ queuedCount' = Len(queue') /\ UNCHANGED dropped
      /\ tasks' = [tasks EXCEPT ![t] = [at |-> "running", entry |-> entry]]
  BY DEF Dequeue, Expired, Flushed, historyVars
<1> DEFINE extra == IF Expired THEN Merge(buffer) ELSE {}
<1>2. /\ extra \subseteq ToSet(buffer)
      /\ Expired => extra \in Entries
      /\ ToSet(buffer) \subseteq TextMessages /\ Expired => extra = ToSet(buffer)
  BY <1>0, MergeEntry DEF Expired
<1>3. /\ Flushed \in Seq(Entries) /\ Held(Flushed) = Held(queue) \cup extra
      /\ Len(Flushed) = Len(queue) + IF Expired THEN 1 ELSE 0
      /\ Apart(queue) /\ extra \cap Held(queue) = {} => Apart(Flushed)
  <2>1. CASE Expired
    <3>1. extra \in Entries /\ Flushed = Append(queue, extra)
      BY <1>2, <2>1 DEF Flushed
    <3> HIDE DEF extra
    <3> QED
      BY <1>0, <2>1, <3>1, AppendEntry
  <2>2. CASE ~Expired
    BY <1>0, <2>2 DEF Flushed
  <2> QED
    BY <2>1, <2>2
<1> HIDE DEF extra
<1>4. /\ entry \in Entries /\ queue' \in Seq(Entries) /\ Len(queue') = Len(Flushed) - 1
      /\ Held(Flushed) = Held(queue') \cup entry
      /\ Apart(Flushed) => Apart(queue') /\ entry \cap Held(queue') = {}
  <2>1. queue' = Tail(Flushed) /\ Flushed # <<>> /\ Flushed \in Seq(Entries)
    BY <1>1, <1>3
  <2> QED
    BY <2>1, TailEntry
<1>5. entry \in Entries /\ entry \subseteq Held(queue) \cup ToSet(buffer)
  BY <1>2, <1>3, <1>4
<1> HIDE DEF entry
<1>6. Held(queue') \cup entry = Held(queue) \cup extra
  BY <1>3, <1>4
<1>7. ToSet(buffer') = IF Expired THEN {} ELSE ToSet(buffer)
  BY <1>0, <1>1
<1>8. ASSUME Orderly PROVE Orderly' /\ entry \cap Around' = {}
  <2>1. extra \cap Held(queue) = {} /\ extra \cap dropped = {}
    BY <1>2, <1>8 DEF Orderly
  <2>2. Apart(queue') /\ entry \cap Held(queue') = {}
    BY <1>3, <1>4, <1>8, <2>1 DEF Orderly
  <2>3. Different(buffer')
    BY <1>0, <1>1, <1>8 DEF Orderly
  <2>4. ~Expired => extra = {}
    BY DEF extra
  <2>5. (Held(queue') \cup entry) \cap ToSet(buffer') = {}
    BY <1>6, <1>7, <1>8, <2>4 DEF Orderly
  <2>6. (Held(queue') \cup entry \cup ToSet(buffer')) \cap dropped = {}
    BY <1>6, <1>7, <1>8, <2>1 DEF Orderly
  <2> QED
    BY <1>1, <2>2, <2>3, <2>5, <2>6 DEF Orderly, Around
<1>9. ASSUME NEW x \in Around \ (Around' \cup entry)
      PROVE  x \in ToSet(buffer) /\ ~(ToSet(buffer) \subseteq TextMessages)
  <2>1. x \notin Held(queue) /\ x \notin extra /\ x \notin dropped /\ x \notin ToSet(buffer')
    BY <1>1, <1>6, <1>9 DEF Around
  <2> QED
    BY <1>2, <1>7, <1>9, <2>1 DEF Around
<1>10. Len(queue') + Buffered' = Len(queue) + Buffered - 1
  <2>1. CASE Expired
    <3>1. Buffered = 1 /\ Buffered' = 0
      BY <1>1, <2>1 DEF Buffered, Expired
    <3> QED
      BY <1>0, <1>3, <1>4, <2>1, <3>1
  <2>2. CASE ~Expired
    <3>1. Buffered' = Buffered /\ Buffered \in {0, 1}
      BY <1>1, <2>2 DEF Buffered
    <3> QED
      BY <1>0, <1>3, <1>4, <2>2, <3>1
  <2> QED
    BY <2>1, <2>2
<1>11. Held(queue') \subseteq Held(queue) \cup ToSet(buffer) /\ buffer' \in {buffer, <<>>}
  BY <1>1, <1>2, <1>6
<1> QED
  BY <1>1, <1>4, <1>5, <1>8, <1>9, <1>10, <1>11 DEF entry

-----------------------------------------------------------------------------
(* The invariant.                                                          *)

Spawned == {t \in Messages : tasks[t].at = "spawned"}

\* A message that adapters delivered has a task of its own, which holds
\* nothing before it takes an entry; those of gRPC clients have none.
Owners ==
    /\ \A t \in Messages : tasks[t].at \in {"none", "spawned", "idle"} => tasks[t].entry = {}
    /\ \A t \in Messages : tasks[t].entry \subseteq accepted
    /\ \A t \in Messages : tasks[t].at # "none" => t \in accepted \ remote

\* A message is at one place.
Once ==
    /\ Orderly
    /\ \A t \in Messages : tasks[t].entry \cap Around = {}
    /\ \A t, u \in Messages : t # u => tasks[t].entry \cap tasks[u].entry = {}

\* NoWakeupLost, with the fragments counted as the entry they will be.
Awaited ==
    /\ Len(queue) + Buffered <= Cardinality(Spawned) + Cardinality(remote)
    /\ queuedCount <= Cardinality(Messages)

Inv == Shapes /\ Owners /\ Once /\ Awaited

LEMMA Room ==
    ASSUME NEW A \in SUBSET Messages, NEW B \in SUBSET Messages, A \cap B = {}
    PROVE  /\ Cardinality(A) \in Nat /\ Cardinality(B) \in Nat /\ Cardinality(Messages) \in Nat
           /\ Cardinality(A) + Cardinality(B) <= Cardinality(Messages)
           /\ B # {} => Cardinality(B) > 0
           /\ \A x \in Messages \ A : Cardinality(A \cup {x}) = Cardinality(A) + 1
           /\ \A x \in A : Cardinality(A \ {x}) = Cardinality(A) - 1
<1>1. IsFiniteSet(Messages) /\ IsFiniteSet(A) /\ IsFiniteSet(B)
  BY WavegateAssumption, FS_Subset
<1>2. Cardinality(A) \in Nat /\ Cardinality(B) \in Nat /\ Cardinality(Messages) \in Nat
  BY <1>1, FS_CardinalityType
<1>3. Cardinality(A \cup B) = Cardinality(A) + Cardinality(B)
  <2>1. Cardinality({}) = 0
    BY FS_EmptySet
  <2>2. Cardinality(A \cup B) = Cardinality(A) + Cardinality(B) - Cardinality(A \cap B)
    BY <1>1, FS_Union
  <2> QED
    BY <1>2, <2>1, <2>2
<1>4. Cardinality(A \cup B) <= Cardinality(Messages)
  BY <1>1, FS_Subset
<1>5. B # {} => Cardinality(B) > 0
  BY <1>1, <1>2, FS_EmptySet
<1>6. \A x \in Messages \ A : Cardinality(A \cup {x}) = Cardinality(A) + 1
  BY <1>1, FS_AddElement
<1>7. \A x \in A : Cardinality(A \ {x}) = Cardinality(A) - 1
  BY <1>1, FS_RemoveElement
<1> QED
  BY <1>2, <1>3, <1>4, <1>5, <1>6, <1>7

\* A message that joins is one entry more, and one task or one remote call.
LEMMA TakenIn ==
    ASSUME Inv, NEW m \in Messages \ accepted, Joins(m),
           accepted' = accepted \cup {m},
           \/ /\ tasks' = [tasks EXCEPT ![m].at = "spawned"]
              /\ remote' = remote /\ buffer' = buffer
           \/ tasks' = tasks /\ remote' = remote \cup {m}
    PROVE  Inv'
<1>0. /\ tasks \in [Messages -> [at : TaskStates, entry : SUBSET Messages]]
      /\ accepted \subseteq Messages /\ remote \subseteq accepted /\ dropped \subseteq accepted
      /\ Held(queue) \subseteq accepted /\ ToSet(buffer) \subseteq remote
      /\ Len(queue) \in Nat /\ Buffered \in {0, 1} /\ Around \subseteq accepted
  BY DEF Inv, Shapes, Buffered, Around
<1>1. /\ tasks' \in [Messages -> [at : TaskStates, entry : SUBSET Messages]]
      /\ \A t \in Messages : tasks'[t].entry = tasks[t].entry
      /\ \A t \in Messages \ {m} : tasks'[t] = tasks[t]
      /\ tasks[m].at = "none"
  <2>1. tasks[m].at = "none" /\ tasks[m] \in [at : TaskStates, entry : SUBSET Messages]
    BY <1>0 DEF Inv, Owners
  <2>2. CASE tasks' = [tasks EXCEPT ![m].at = "spawned"]
    BY <1>0, <2>1, <2>2 DEF TaskStates
  <2>3. CASE tasks' = tasks
    BY <1>0, <2>1, <2>3
  <2> QED
    BY <2>1, <2>2, <2>3
<1>2. /\ queue' \in Seq(Entries) /\ buffer' \in Seq(Messages) /\ Len(queue') \in Nat
      /\ Around' \subseteq Around \cup {m} /\ dropped' \subseteq dropped \cup Held(queue)
      /\ ToSet(buffer') \subseteq ToSet(buffer) \cup {m}
      /\ Held(queue') \subseteq Around'
  BY DEF Joins, Around
<1>3. Shapes'
  <2>1. ToSet(buffer') \subseteq remote'
    BY <1>0, <1>2
  <2>2. queuedCount' \in Nat
    <3>1. Buffered' \in {0, 1}
      BY DEF Buffered
    <3> QED
      BY <1>2, <3>1 DEF Joins, Inv, Shapes
  <2> QED
    BY <1>0, <1>1, <1>2, <2>1, <2>2 DEF Shapes
<1>4. Owners'
  <2>1. tasks[m].entry = {}
    BY <1>1 DEF Inv, Owners
  <2>2. \A t \in Messages : tasks'[t].at # "none" => t \in accepted' \ remote'
    <3>1. ASSUME NEW t \in Messages \ {m}, tasks'[t].at # "none" PROVE t \in accepted' \ remote'
      BY <1>0, <1>1, <3>1 DEF Inv, Owners
    <3>2. ASSUME tasks'[m].at # "none" PROVE m \in accepted' \ remote'
      BY <1>0, <1>1, <3>2
    <3> QED
      BY <3>1, <3>2
  <2>3. \A t \in Messages : tasks'[t].entry \subseteq accepted'
    BY <1>0, <1>1 DEF Inv, Owners
  <2>4. \A t \in Messages : tasks'[t].at \in {"none", "spawned", "idle"} => tasks'[t].entry = {}
    BY <1>1, <2>1 DEF Inv, Owners
  <2> QED
    BY <2>2, <2>3, <2>4 DEF Owners
<1>5. Once'
  <2>1. Orderly'
    BY DEF Joins, Inv, Once
  <2>2. \A t \in Messages : tasks'[t].entry \cap Around' = {}
    BY <1>1, <1>2 DEF Inv, Once, Owners
  <2>3. \A t, u \in Messages : t # u => tasks'[t].entry \cap tasks'[u].entry = {}
    BY <1>1 DEF Inv, Once
  <2> QED
    BY <2>1, <2>2, <2>3 DEF Once
<1>6. Awaited'
  <2>1. /\ Spawned \in SUBSET Messages /\ remote \in SUBSET Messages /\ Spawned \cap remote = {}
        /\ m \notin Spawned /\ m \notin remote
    BY <1>0, <1>1 DEF Spawned, Inv, Owners
  <2>2. Cardinality(Spawned') + Cardinality(remote') = Cardinality(Spawned) + Cardinality(remote) + 1
    <3>1. CASE tasks' = [tasks EXCEPT ![m].at = "spawned"] /\ remote' = remote
      <4>1. tasks'[m].at = "spawned"
        BY <1>0, <3>1
      <4>2. Spawned' = Spawned \cup {m}
        BY <1>1, <2>1, <4>1 DEF Spawned
      <4> QED
        BY <2>1, <3>1, <4>2, Room
    <3>2. CASE tasks' = tasks /\ remote' = remote \cup {m}
      <4>1. Spawned' = Spawned
        BY <3>2 DEF Spawned
      <4> QED
        BY <2>1, <3>2, <4>1, Room
    <3> QED
      BY <3>1, <3>2
  <2>3. Len(queue') + Buffered' <= Cardinality(Spawned') + Cardinality(remote')
    <3>1. Cardinality(Spawned) \in Nat /\ Cardinality(remote) \in Nat
      BY <2>1, Room
    <3>2. Len(queue) + Buffered <= Cardinality(Spawned) + Cardinality(remote)
      BY DEF Inv, Awaited
    <3>3. Buffered' \in {0, 1}
      BY DEF Buffered
    <3> QED
      BY <1>0, <1>2, <2>2, <3>1, <3>2, <3>3 DEF Joins
  <2>4. queuedCount' <= Cardinality(Messages)
    <3>1. Spawned' \in SUBSET Messages /\ remote' \in SUBSET Messages /\ Spawned' \cap remote' = {}
      BY <1>3, <1>4 DEF Spawned, Owners, Shapes
    <3>2. /\ Cardinality(Spawned') + Cardinality(remote') <= Cardinality(Messages)
          /\ Cardinality(Spawned') \in Nat /\ Cardinality(remote') \in Nat
          /\ Cardinality(Messages) \in Nat
      BY <3>1, Room
    <3>3. Buffered' \in {0, 1}
      BY DEF Buffered
    <3>4. CASE queuedCount' = queuedCount
      BY <3>4 DEF Inv, Awaited
    <3>5. CASE queuedCount' \in 0..(Len(queue') + Buffered')
      BY <1>2, <2>3, <3>2, <3>3, <3>5
    <3> QED
      BY <3>4, <3>5 DEF Joins
  <2> QED
    BY <2>3, <2>4 DEF Awaited
<1> QED
  BY <1>3, <1>4, <1>5, <1>6 DEF Inv

\* A task takes an entry.
LEMMA Taken ==
    ASSUME Inv, NEW t \in Messages, Dequeue(t)
    PROVE  Inv'
<1> DEFINE entry == Head(Flushed)
<1>1. /\ tasks' = [tasks EXCEPT ![t] = [at |-> "running", entry |-> entry]]
      /\ entry \in Entries /\ entry \subseteq Held(queue) \cup ToSet(buffer)
      /\ queue' \in Seq(Entries) /\ buffer' \in {buffer, <<>>}
      /\ Held(queue') \subseteq Held(queue) \cup ToSet(buffer)
      /\ UNCHANGED dropped
      /\ Orderly => Orderly' /\ entry \cap Around' = {}
      /\ Len(queue') + Buffered' = Len(queue) + Buffered - 1
      /\ queuedCount' = Len(queue')
  BY DequeueTakes DEF Inv
<1> HIDE DEF entry
<1>2. tasks[t].at = "spawned" /\ UNCHANGED <<accepted, remote>>
  BY DEF Dequeue, historyVars
<1>3. entry \subseteq Messages /\ entry \subseteq accepted /\ entry \subseteq Around
  BY <1>1 DEF Inv, Shapes, Around
<1>4. ToSet(buffer') \subseteq ToSet(buffer) /\ buffer' \in Seq(Messages)
  <2>1. ToSet(<<>>) = {} /\ <<>> \in Seq(Messages) /\ buffer \in Seq(Messages)
    BY AppendFragment DEF Inv, Shapes
  <2> QED
    BY <1>1, <2>1
<1>5. /\ tasks' \in [Messages -> [at : TaskStates, entry : SUBSET Messages]]
      /\ tasks'[t] = [at |-> "running", entry |-> entry]
      /\ \A u \in Messages \ {t} : tasks'[u] = tasks[u]
  BY <1>1, <1>3 DEF Inv, Shapes, TaskStates
<1>6. Around' \subseteq Around /\ Len(queue') \in Nat
  BY <1>1, <1>4 DEF Around
<1>7. Shapes'
  BY <1>1, <1>2, <1>4, <1>5, <1>6 DEF Inv, Shapes
<1>8. Owners'
  BY <1>2, <1>3, <1>5 DEF Inv, Owners
<1>9. Once'
  <2>1. Orderly'
    BY <1>1 DEF Inv, Once
  <2>2. \A u \in Messages : tasks'[u].entry \cap Around' = {}
    BY <1>1, <1>5, <1>6 DEF Inv, Once
  <2>3. \A u \in Messages : tasks[u].entry \cap entry = {}
    BY <1>3 DEF Inv, Once
  <2>4. \A u, v \in Messages : u # v => tasks'[u].entry \cap tasks'[v].entry = {}
    BY <1>5, <2>3 DEF Inv, Once
  <2> QED
    BY <2>1, <2>2, <2>4 DEF Once
<1>10. Awaited'
  <2>1. /\ Spawned \in SUBSET Messages /\ remote \in SUBSET Messages /\ Spawned \cap remote = {}
        /\ t \in Spawned
    BY <1>2 DEF Spawned, Inv, Owners, Shapes
  <2>2. Spawned' = Spawned \ {t}
    BY <1>5 DEF Spawned
  <2>3. /\ Cardinality(Spawned') = Cardinality(Spawned) - 1
        /\ Cardinality(Spawned) \in Nat /\ Cardinality(remote) \in Nat
        /\ Cardinality(Messages) \in Nat
        /\ Cardinality(Spawned) + Cardinality(remote) <= Cardinality(Messages)
    BY <2>1, <2>2, Room
  <2>4. Buffered \in {0, 1} /\ Buffered' \in {0, 1} /\ Len(queue) \in Nat
    BY DEF Buffered, Inv, Shapes
  <2>5. Len(queue') + Buffered' <= Cardinality(Spawned') + Cardinality(remote')
    BY <1>1, <1>2, <1>6, <2>3, <2>4 DEF Inv, Awaited
  <2>6. queuedCount' <= Cardinality(Messages)
    BY <1>1, <1>2, <1>6, <2>3, <2>4, <2>5
  <2> QED
    BY <2>5, <2>6 DEF Awaited
<1> QED
  BY <1>7, <1>8, <1>9, <1>10 DEF Inv

\* What is waiting is dropped, with the buffer or without it.
LEMMA Dropped ==
    ASSUME Inv, queue' = <<>>, buffer' \in {buffer, <<>>},
           dropped' \subseteq Around, dropped \subseteq dropped',
           dropped' \cap ToSet(buffer') = {},
           UNCHANGED <<tasks, accepted, remote, queuedCount>>
    PROVE  Inv'
<1>1. queue' \in Seq(Entries) /\ Held(queue') = {} /\ Apart(queue') /\ Len(queue') = 0
  <2>1. <<>> \in Seq(Entries) /\ Held(<<>>) = {} /\ Apart(<<>>) /\ Len(<<>>) = 0
    BY HeldIn DEF Apart
  <2> QED
    BY <2>1
<1>2. /\ buffer' \in Seq(Messages) /\ ToSet(buffer') \subseteq ToSet(buffer)
      /\ Different(buffer) => Different(buffer')
  <2>1. ToSet(<<>>) = {} /\ <<>> \in Seq(Messages) /\ Different(<<>>)
    BY DEF ToSet, Different
  <2> QED
    BY <2>1 DEF Inv, Shapes
<1>3. Around' \subseteq Around
  BY <1>1, <1>2 DEF Around
<1>4. Around \subseteq accepted
  BY DEF Inv, Shapes, Around
<1>5. Shapes'
  BY <1>1, <1>2, <1>4 DEF Inv, Shapes
<1>6. Owners'
  BY DEF Inv, Owners
<1>7. Once'
  BY <1>1, <1>2, <1>3 DEF Inv, Once, Orderly
<1>8. Awaited'
  <2>1. Spawned' = Spawned /\ Len(queue) \in Nat
    BY DEF Spawned, Inv, Shapes
  <2>2. Buffered \in {0, 1} /\ Buffered' <= Buffered /\ Buffered' \in {0, 1}
    BY DEF Buffered
  <2>3. Spawned \in SUBSET Messages /\ remote \in SUBSET Messages /\ Spawned \cap remote = {}
    BY DEF Spawned, Inv, Owners, Shapes
  <2>4. Cardinality(Spawned) \in Nat /\ Cardinality(remote) \in Nat
    BY <2>3, Room
  <2> QED
    BY <1>1, <2>1, <2>2, <2>4 DEF Inv, Awaited
<1> QED
  BY <1>5, <1>6, <1>7, <1>8 DEF Inv

\* A task that has something, or nothing, to do goes on; a task that comes to
\* an empty queue leaves no fragments behind but those of remote calls.
LEMMA MovedOn ==
    ASSUME Inv, NEW t \in Messages, NEW to \in {"idle", "answered", "failed", "cancelled"},
           \/ tasks[t].at = "spawned" /\ to = "idle" /\ queue = <<>>
           \/ tasks[t].at = "running" /\ to # "idle",
           tasks' = [tasks EXCEPT ![t].at = to],
           UNCHANGED <<queue, buffer, queuedCount, accepted, remote, dropped>>
    PROVE  Inv'
<1>1. /\ tasks' \in [Messages -> [at : TaskStates, entry : SUBSET Messages]]
      /\ tasks'[t].at = to /\ tasks'[t].entry = tasks[t].entry
      /\ \A u \in Messages \ {t} : tasks'[u] = tasks[u]
  <2>1. /\ tasks \in [Messages -> [at : TaskStates, entry : SUBSET Messages]]
        /\ tasks[t] \in [at : TaskStates, entry : SUBSET Messages]
    BY DEF Inv, Shapes
  <2> QED
    BY <2>1 DEF TaskStates
<1>2. Shapes'
  BY <1>1 DEF Inv, Shapes
<1>3. Owners'
  BY <1>1 DEF Inv, Owners
<1>4. Once'
  <2>1. \A u \in Messages : tasks'[u].entry = tasks[u].entry
    BY <1>1
  <2>2. Around' = Around /\ (Orderly => Orderly')
    BY DEF Around, Orderly
  <2> QED
    BY <2>1, <2>2 DEF Inv, Once
<1>5. Awaited'
  <2>1. Buffered' = Buffered /\ Buffered \in {0, 1} /\ (Buffered = 1 => buffer # <<>>)
    BY DEF Buffered
  <2>2. Spawned \in SUBSET Messages /\ remote \in SUBSET Messages /\ Spawned \cap remote = {}
    BY DEF Spawned, Inv, Owners, Shapes
  <2>3. CASE tasks[t].at = "running"
    <3>1. Spawned' = Spawned
      BY <1>1, <2>3 DEF Spawned
    <3> QED
      BY <2>1, <3>1 DEF Inv, Awaited
  <2>4. CASE tasks[t].at = "spawned" /\ queue = <<>>
    <3>1. Buffered = 1 => Cardinality(remote) > 0
      <4>1. buffer # <<>> => ToSet(buffer) # {}
        BY DEF ToSet, Inv, Shapes
      <4>2. buffer # <<>> => remote # {}
        BY <4>1 DEF Inv, Shapes
      <4> QED
        BY <2>1, <2>2, <4>2, Room
    <3>2. Spawned' \in SUBSET Messages /\ Spawned' \cap remote = {}
      BY <1>1 DEF Spawned, Inv, Owners
    <3>3. Cardinality(Spawned') \in Nat /\ Cardinality(remote) \in Nat /\ Len(queue) = 0
      BY <2>2, <2>4, <3>2, Room
    <3> QED
      BY <2>1, <3>1, <3>3 DEF Inv, Awaited
  <2> QED
    BY <2>3, <2>4
<1> QED
  BY <1>2, <1>3, <1>4, <1>5 DEF Inv

LEMMA Quiet ==
    ASSUME Inv, UNCHANGED <<queue, buffer, queuedCount, tasks, accepted, remote, dropped>>
    PROVE  Inv'
<1>1. Around' = Around /\ (Orderly => Orderly') /\ Buffered' = Buffered /\ Spawned' = Spawned
  BY DEF Around, Orderly, Buffered, Spawned
<1> QED
  BY <1>1 DEF Inv, Shapes, Owners, Once, Awaited

LEMMA InvStep == Inv /\ [Next]_vars => Inv'
<1> SUFFICES ASSUME Inv, [Next]_vars PROVE Inv'
  OBVIOUS
<1>0. Shapes
  BY DEF Inv
<1>1. ASSUME NEW m \in Messages, AdapterMessage(m) PROVE Inv'
  <2>1. PICK mode \in AdapterModes : Enqueue(m, mode)
    BY <1>1 DEF AdapterMessage
  <2>2. m \notin accepted /\ accepted' = accepted \cup {m} /\ Joins(m) /\ buffer' = buffer
    BY <1>0, <2>1, EnqueueJoins
  <2> QED
    BY <1>1, <2>2, TakenIn DEF AdapterMessage
<1>2. ASSUME NEW m \in Messages, Ingest(m) \/ StreamIngest(m) PROVE Inv'
  <2>1. EnqueueImmediate(m) \/ \E mode \in Modes : Enqueue(m, mode)
    BY <1>2 DEF Ingest, StreamIngest
  <2>2. m \notin accepted /\ accepted' = accepted \cup {m} /\ Joins(m)
    BY <1>0, <2>1, EnqueueJoins
  <2>3. tasks' = tasks /\ remote' = remote \cup {m}
    BY <1>2 DEF Ingest, StreamIngest
  <2> QED
    BY <2>2, <2>3, TakenIn
<1>3. ASSUME NEW t \in Messages, NothingToDo(t) PROVE Inv'
  BY <1>3, MovedOn DEF NothingToDo, queueVars, historyVars
<1>4. ASSUME NEW t \in Messages, LastStep(t) PROVE Inv'
  BY <1>4, MovedOn DEF LastStep, Answered, Failed, Cancelled, queueVars, historyVars
<1>5. ASSUME NEW t \in Messages, Chunk(t) PROVE Inv'
  BY <1>5, Quiet DEF Chunk, queueVars, historyVars
<1>6. CASE Interrupt
  <2>1. CASE current
    <3>1. /\ queue' = <<>> /\ dropped' = dropped \cup Held(queue)
          /\ UNCHANGED <<buffer, queuedCount, tasks, accepted, remote>>
      BY <1>6, <2>1, QueueIs DEF Interrupt, InterruptQueue
    <3>2. dropped' \subseteq Around /\ dropped' \cap ToSet(buffer) = {}
      BY <3>1 DEF Around, Inv, Once, Orderly
    <3> QED
      BY <3>1, <3>2, Dropped
  <2>2. CASE ~current
    BY <1>6, <2>2, Quiet DEF Interrupt, InterruptQueue
  <2> QED
    BY <2>1, <2>2
<1>7. CASE Stop
  <2>1. /\ queue' = <<>> /\ buffer' = <<>> /\ dropped' = Around
        /\ UNCHANGED <<queuedCount, tasks, accepted, remote>>
    BY <1>7, QueueIs DEF Stop, Around
  <2>2. ToSet(<<>>) = {}
    BY DEF ToSet
  <2> QED
    BY <2>1, <2>2, Dropped DEF Around
<1>8. CASE WindowExpires \/ UNCHANGED vars
  BY <1>8, Quiet DEF WindowExpires, vars, queueVars, historyVars
<1> QED
  BY <1>1, <1>2, <1>3, <1>4, <1>5, <1>6, <1>7, <1>8, Taken DEF Next, FirstStep

LEMMA Invariant == Spec => []Inv
<1>1. Init => Inv
  <2> SUFFICES ASSUME Init PROVE Inv
    OBVIOUS
  <2>1. /\ <<>> \in Seq(Entries) /\ Held(<<>>) = {} /\ Apart(<<>>) /\ Len(<<>>) = 0
        /\ ToSet(<<>>) = {} /\ Different(<<>>) /\ <<>> \in Seq(Messages)
    BY HeldIn DEF ToSet, Different, Apart
  <2>2. Shapes
    BY <2>1 DEF Init, Shapes, NoTask, TaskStates
  <2>3. Owners
    BY DEF Init, Owners, NoTask
  <2>4. Once
    BY <2>1 DEF Init, Once, Orderly, Around, NoTask
  <2>5. Awaited
    <3>1. Spawned = {} /\ remote = {} /\ Buffered = 0 /\ Len(queue) = 0 /\ queuedCount = 0
      BY <2>1 DEF Init, Spawned, NoTask, Buffered
    <3>2. Cardinality({}) = 0 /\ Cardinality(Messages) \in Nat
      BY WavegateAssumption, FS_EmptySet, FS_CardinalityType
    <3> QED
      BY <3>1, <3>2 DEF Awaited
  <2> QED
    BY <2>2, <2>3, <2>4, <2>5 DEF Inv
<1> QED
  BY <1>1, InvStep, PTL DEF Spec

-----------------------------------------------------------------------------
(* The theorems.                                                           *)

\* The variables that no other part of the invariant mentions.
Flags ==
    /\ windowOpen \in BOOLEAN /\ current \in BOOLEAN /\ interruptPending \in BOOLEAN
    /\ responses \in {"none", "chunk", "final"}
    /\ stopped \in BOOLEAN
    /\ persists \in AdapterLoops

LEMMA FlagsStep == Flags /\ [Next]_vars => Flags'
<1> SUFFICES ASSUME Flags, [Next]_vars PROVE Flags'
  OBVIOUS
<1> USE DEF Flags
<1>1. ASSUME NEW m \in Messages, NEW mode, Enqueue(m, mode) PROVE windowOpen' \in BOOLEAN
  BY <1>1 DEF Enqueue, EnqueueInterrupt, EnqueueCollect, EnqueueFollowup, EnqueueSteer
<1>2. ASSUME NEW m \in Messages, EnqueueImmediate(m) PROVE windowOpen' \in BOOLEAN
  BY <1>2 DEF EnqueueImmediate
<1>3. ASSUME NEW m \in Messages, AdapterMessage(m) PROVE Flags'
  BY <1>1, <1>3 DEF AdapterMessage
<1>4. ASSUME NEW m \in Messages, Ingest(m) PROVE Flags'
  BY <1>1, <1>2, <1>4 DEF Ingest
<1>5. ASSUME NEW m \in Messages, StreamIngest(m) PROVE Flags'
  BY <1>1, <1>5 DEF StreamIngest
<1>6. ASSUME NEW m \in Messages, FirstStep(m) PROVE Flags'
  BY <1>6 DEF FirstStep, Dequeue, NothingToDo, queueVars
<1>7. ASSUME NEW m \in Messages, Chunk(m) \/ LastStep(m) PROVE Flags'
  BY <1>7 DEF Chunk, LastStep, Answered, Failed, Cancelled, queueVars
<1>8. CASE Interrupt \/ WindowExpires \/ Stop \/ UNCHANGED vars
  BY <1>8 DEF Interrupt, InterruptQueue, WindowExpires, Stop, vars, queueVars
<1> QED
  BY <1>3, <1>4, <1>5, <1>6, <1>7, <1>8 DEF Next

\* Every variable keeps its type; queued_count stays within the messages.
THEOREM TypeCorrect == Spec => []TypeOK
<1>1. Init => Flags
  BY DEF Init, Flags
<1>2. Inv /\ Flags => TypeOK
  <2> SUFFICES ASSUME Inv, Flags PROVE TypeOK
    OBVIOUS
  <2>1. queuedCount \in 0..Cardinality(Messages)
    <3>1. Cardinality(Messages) \in Nat
      BY WavegateAssumption, FS_CardinalityType
    <3> QED
      BY <3>1 DEF Inv, Shapes, Awaited
  <2>2. queue \in Seq((SUBSET Messages) \ {{}})
    BY DEF Inv, Shapes, Entries
  <2> QED
    BY <2>1, <2>2 DEF Inv, Flags, Shapes, TypeOK
<1> QED
  BY <1>1, <1>2, FlagsStep, Invariant, PTL DEF Spec

\* Whatever is steered, collected, interrupted and shut down, no message is
\* with two tasks, or with one and still waiting or already dropped.
THEOREM HeldOnceCorrect == Spec => []HeldOnce
<1>1. Inv => HeldOnce
  <2> SUFFICES ASSUME Inv, NEW m \in Messages PROVE Cardinality(Places(m)) <= 1
    BY DEF HeldOnce
  <2>1. \A i, j \in DOMAIN queue : m \in queue[i] /\ m \in queue[j] => i = j
    BY DEF Inv, Once, Orderly, Apart
  <2>2. \A i, j \in DOMAIN buffer : buffer[i] = m /\ buffer[j] = m => i = j
    BY DEF Inv, Once, Orderly, Different
  <2>3. \A t, u \in Messages : m \in tasks[t].entry /\ m \in tasks[u].entry => t = u
    BY DEF Inv, Once
  <2>4. /\ (\E i \in DOMAIN queue : m \in queue[i]) => m \in Held(queue)
        /\ (\E i \in DOMAIN buffer : buffer[i] = m) => m \in ToSet(buffer)
    BY HeldIn DEF ToSet
  <2>5. /\ ~(m \in Held(queue) /\ m \in ToSet(buffer))
        /\ ~((m \in Held(queue) \/ m \in ToSet(buffer)) /\ m \in dropped)
        /\ \A t \in Messages : m \in tasks[t].entry =>
              m \notin Held(queue) /\ m \notin ToSet(buffer) /\ m \notin dropped
    BY DEF Inv, Once, Orderly, Around
  <2>6. ASSUME NEW p \in Places(m), NEW q \in Places(m) PROVE p = q
    <3>1. ASSUME NEW x \in Places(m)
          PROVE  \/ \E i \in DOMAIN queue : m \in queue[i] /\ x = <<"queue", i>>
                 \/ \E i \in DOMAIN buffer : buffer[i] = m /\ x = <<"buffer", i>>
                 \/ \E t \in Messages : m \in tasks[t].entry /\ x = <<"task", t>>
                 \/ m \in dropped /\ x = <<"dropped", 0>>
      BY DEF Places
    <3>2. CASE \E i \in DOMAIN queue : m \in queue[i] /\ p = <<"queue", i>>
      BY <2>1, <2>4, <2>5, <3>1, <3>2
    <3>3. CASE \E i \in DOMAIN buffer : buffer[i] = m /\ p = <<"buffer", i>>
      BY <2>2, <2>4, <2>5, <3>1, <3>3
    <3>4. CASE \E t \in Messages : m \in tasks[t].entry /\ p = <<"task", t>>
      BY <2>3, <2>4, <2>5, <3>1, <3>4
    <3>5. CASE m \in dropped /\ p = <<"dropped", 0>>
      BY <2>4, <2>5, <3>1, <3>5
    <3> QED
      BY <3>1, <3>2, <3>3, <3>4, <3>5
  <2>7. CASE Places(m) = {}
    BY <2>7, FS_EmptySet
  <2>8. ASSUME NEW p \in Places(m) PROVE Cardinality(Places(m)) = 1
    <3>1. Places(m) = {p}
      BY <2>6, <2>8
    <3> QED
      BY <3>1, FS_Singleton
  <2> QED
    BY <2>7, <2>8
<1> QED
  BY <1>1, Invariant, PTL

\* No more entries wait without a task that will come for them than gRPC
\* clients sent, for any number of messages.
THEOREM NoWakeupLostCorrect == Spec => []NoWakeupLost
<1>1. Inv => NoWakeupLost
  <2> SUFFICES ASSUME Inv PROVE NoWakeupLost
    OBVIOUS
  <2>1. Spawned \in SUBSET Messages /\ remote \in SUBSET Messages /\ Spawned \cap remote = {}
    BY DEF Spawned, Inv, Owners, Shapes
  <2>2. Cardinality(Spawned) \in Nat /\ Cardinality(remote) \in Nat /\ Len(queue) \in Nat
    <3>1. Cardinality(Spawned) \in Nat /\ Cardinality(remote) \in Nat
      BY <2>1, Room
    <3> QED
      BY <3>1 DEF Inv, Shapes
  <2>3. Buffered \in {0, 1}
    BY DEF Buffered
  <2>4. Len(queue) <= Cardinality(Spawned) + Cardinality(remote)
    BY <2>2, <2>3 DEF Inv, Awaited
  <2> QED
    BY <2>4 DEF NoWakeupLost, Spawned
<1> QED
  BY <1>1, Invariant, PTL

\* A message is nowhere when it is neither around nor with a task.
Gone(m) == m \notin Around /\ \A t \in Messages : m \notin tasks[t].entry
PlacesAreAll == \A m : Places(m) = {} <=> Gone(m)

LEMMA Nowhere == PlacesAreAll
<1> SUFFICES ASSUME NEW m PROVE Places(m) = {} <=> Gone(m)
  BY DEF PlacesAreAll
<1>1. /\ m \in Held(queue) <=> \E i \in DOMAIN queue : m \in queue[i]
      /\ m \in ToSet(buffer) <=> \E i \in DOMAIN buffer : buffer[i] = m
  BY HeldIn DEF ToSet
<1>2. Places(m) = {} <=> /\ ~\E i \in DOMAIN queue : m \in queue[i]
                         /\ ~\E i \in DOMAIN buffer : buffer[i] = m
                         /\ ~\E t \in Messages : m \in tasks[t].entry
                         /\ m \notin dropped
  BY DEF Places
<1> QED
  BY <1>1, <1>2 DEF Around, Gone

LEMMA NobodyGone ==
    ASSUME Inv, [Next]_vars, NEW x \in accepted', Gone(x)'
    PROVE  \/ x \in accepted /\ Gone(x)
           \/ x \in ToSet(buffer) /\ ~(ToSet(buffer) \subseteq TextMessages)
<1> DEFINE Good == \/ x \in accepted /\ Gone(x)
                   \/ x \in ToSet(buffer) /\ ~(ToSet(buffer) \subseteq TextMessages)
<1>0. /\ Shapes /\ tasks \in [Messages -> [at : TaskStates, entry : SUBSET Messages]]
      /\ x \notin Around' /\ \A t \in Messages : x \notin tasks'[t].entry
  BY DEF Inv, Shapes, Gone
<1>1. ASSUME NEW m \in Messages, accepted' = accepted \cup {m}, Joins(m),
             \A t \in Messages : tasks'[t].entry = tasks[t].entry
      PROVE  Good
  BY <1>0, <1>1 DEF Joins, Gone
<1>2. ASSUME NEW m \in Messages, AdapterMessage(m) PROVE Good
  <2>1. accepted' = accepted \cup {m} /\ Joins(m)
    BY <1>0, <1>2, EnqueueJoins DEF AdapterMessage, AdapterModes
  <2>2. \A t \in Messages : tasks'[t].entry = tasks[t].entry
    BY <1>0, <1>2 DEF AdapterMessage
  <2> QED
    BY <1>1, <2>1, <2>2
<1>3. ASSUME NEW m \in Messages, Ingest(m) \/ StreamIngest(m) PROVE Good
  <2>1. accepted' = accepted \cup {m} /\ Joins(m)
    BY <1>0, <1>3, EnqueueJoins DEF Ingest, StreamIngest
  <2>2. tasks' = tasks
    BY <1>3 DEF Ingest, StreamIngest
  <2> QED
    BY <1>1, <2>1, <2>2
<1>4. ASSUME NEW t \in Messages, Dequeue(t) PROVE Good
  <2>1. /\ tasks' = [tasks EXCEPT ![t] = [at |-> "running", entry |-> Head(Flushed)]]
        /\ \A y \in Around \ (Around' \cup Head(Flushed)) :
              y \in ToSet(buffer) /\ ~(ToSet(buffer) \subseteq TextMessages)
    BY <1>0, <1>4, DequeueTakes
  <2>2. tasks'[t].entry = Head(Flushed) /\ \A u \in Messages \ {t} : tasks'[u] = tasks[u]
    BY <1>0, <2>1
  <2>3. tasks[t].entry = {} /\ accepted' = accepted
    BY <1>4 DEF Dequeue, Inv, Owners, historyVars
  <2> QED
    BY <1>0, <2>1, <2>2, <2>3 DEF Gone
\* Steps that only move messages to those dropped, or none at all.
<1>5. ASSUME UNCHANGED accepted, Around \subseteq Around',
             \A t \in Messages : tasks'[t].entry = tasks[t].entry
      PROVE  Good
  BY <1>0, <1>5 DEF Gone
<1>6. ASSUME NEW t \in Messages, NothingToDo(t) \/ Chunk(t) \/ LastStep(t) PROVE Good
  <2>1. /\ UNCHANGED <<queue, buffer, dropped, accepted>>
        /\ \A u \in Messages : tasks'[u].entry = tasks[u].entry
    BY <1>0, <1>6
       DEF NothingToDo, Chunk, LastStep, Answered, Failed, Cancelled, queueVars, historyVars
  <2> QED
    BY <1>5, <2>1 DEF Around
<1>7. CASE Interrupt
  <2>1. /\ UNCHANGED <<buffer, tasks, accepted>> /\ dropped \subseteq dropped'
        /\ UNCHANGED queue \/ Held(queue) \subseteq dropped'
    BY <1>7, QueueIs DEF Interrupt, InterruptQueue
  <2> QED
    BY <1>5, <2>1 DEF Around
<1>8. CASE Stop
  BY <1>5, <1>8, QueueIs DEF Stop, Around
<1>9. CASE WindowExpires \/ UNCHANGED vars
  BY <1>5, <1>9 DEF WindowExpires, vars, queueVars, historyVars, Around
<1> QED
  BY <1>2, <1>3, <1>4, <1>6, <1>7, <1>8, <1>9 DEF Next, FirstStep

\* An accepted message is waiting, with a task, or was removed by an interrupt
\* or the shutdown: no other operation loses it, except the merge of fragments
\* of which one is not text.
NoneLost ==
    [][\A m \in accepted' :
          Places(m)' = {} =>
             \/ m \in accepted /\ Places(m) = {}
             \/ m \in ToSet(buffer) /\ ~(ToSet(buffer) \subseteq TextMessages)]_vars

\* An accepted message stays where it can be found, except for what the merge
\* of a buffer with other than text in it leaves out.
THEOREM NoneLostCorrect == Spec => NoneLost
<1>1. PlacesAreAll /\ PlacesAreAll'
  BY Nowhere, PTL
<1>2. Inv /\ [Next]_vars =>
        \A m \in accepted' :
          Places(m)' = {} =>
             \/ m \in accepted /\ Places(m) = {}
             \/ m \in ToSet(buffer) /\ ~(ToSet(buffer) \subseteq TextMessages)
  BY <1>1, NobodyGone DEF PlacesAreAll
<1> QED
  BY <1>2, Invariant, PTL DEF Spec, NoneLost

-----------------------------------------------------------------------------
(* The session queue is a Mailbox.                                         *)

Waiting == Held(queue) \cup ToSet(buffer)

WaitingIs == InQueue \cup ToSet(buffer) = Waiting

LEMMA WaitingAlways == WaitingIs
  BY QueueIs DEF WaitingIs, Waiting

\* Before and after a step.
LEMMA WaitingBoth == WaitingIs /\ WaitingIs'
  BY WaitingAlways, PTL

\* Tasks that keep what they hold, and how it went, keep the batches.
LEMMA BatchesKept ==
    ASSUME \A t \in Messages : /\ tasks'[t].entry = tasks[t].entry
                               /\ tasks[t].entry = {} \/ tasks'[t].at = tasks[t].at
    PROVE  Batches' = Batches
  BY DEF Batches

\* A message that joins those around is accepted.
LEMMA JoinsMail ==
    ASSUME Inv, Inv', NEW m \in Messages \ accepted, Joins(m),
           accepted' = accepted \cup {m}, remote' \in {remote, remote \cup {m}},
           Batches' = Batches
    PROVE  Mail!Accept(m)
<1> DEFINE D == dropped' \ dropped
           L == Around \ Around'
<1>1. /\ Held(queue) \subseteq accepted /\ ToSet(buffer) \subseteq remote
      /\ remote \subseteq accepted /\ dropped \subseteq accepted
      /\ Waiting \cap dropped = {} /\ Waiting' \cap dropped' = {}
      /\ Around = Waiting \cup dropped /\ Around' = Waiting' \cup dropped'
  BY DEF Inv, Shapes, Once, Orderly, Waiting, Around
<1>2. /\ dropped \subseteq dropped' /\ dropped' \subseteq dropped \cup Held(queue)
      /\ Around' \subseteq Around \cup {m} /\ m \in Around'
  BY DEF Joins
<1>3. D \in SUBSET Waiting /\ L \in SUBSET Waiting
  BY <1>1, <1>2 DEF Waiting
<1>4. L # {} => L \subseteq remote /\ ~(Waiting \subseteq TextMessages)
  BY <1>1 DEF Joins, Waiting
<1>5. D = {} \/ L = {}
  BY DEF Joins
<1>6. m \in Waiting'
  BY <1>1, <1>2
<1>7. Waiting' = (Waiting \ (D \cup L)) \cup {m}
  BY <1>1, <1>2, <1>6
<1>8. dropped' = dropped \cup D
  BY <1>2
<1> HIDE DEF D, L
<1> QED
  BY <1>3, <1>4, <1>5, <1>7, <1>8, WaitingBoth DEF Mail!Accept, Mail!MayLose, WaitingIs

\* The entry that a task takes is handed over.
LEMMA DequeueMail ==
    ASSUME Inv, Inv', NEW t \in Messages, Dequeue(t)
    PROVE  Mail!HandOver
<1> DEFINE B == Head(Flushed)
           L == Around \ (Around' \cup B)
<1>1. /\ tasks' = [tasks EXCEPT ![t] = [at |-> "running", entry |-> B]]
      /\ B \in Entries /\ B \subseteq Held(queue) \cup ToSet(buffer)
      /\ buffer' \in {buffer, <<>>}
      /\ Held(queue') \subseteq Held(queue) \cup ToSet(buffer)
      /\ dropped' = dropped /\ B \cap Around' = {}
      /\ \A x \in L : x \in ToSet(buffer) /\ ~(ToSet(buffer) \subseteq TextMessages)
  BY DequeueTakes DEF Inv, Once
<1> HIDE DEF B
<1>2. /\ tasks \in [Messages -> [at : TaskStates, entry : SUBSET Messages]]
      /\ ToSet(buffer) \subseteq remote /\ tasks[t].entry = {}
      /\ Waiting \cap dropped = {} /\ Waiting' \cap dropped' = {}
      /\ Around = Waiting \cup dropped /\ Around' = Waiting' \cup dropped'
  BY DEF Dequeue, Inv, Shapes, Owners, Once, Orderly, Waiting, Around
<1>3. Waiting' \subseteq Waiting
  <2>1. ToSet(<<>>) = {}
    BY DEF ToSet
  <2>2. ToSet(buffer') \subseteq ToSet(buffer)
    BY <1>1, <2>1
  <2> QED
    BY <1>1, <2>2 DEF Waiting
<1>4. B \in SUBSET Waiting /\ L \in SUBSET Waiting /\ B # {} /\ B \cap L = {}
  BY <1>1, <1>2, EntryIs DEF Waiting
<1>5. L # {} => L \subseteq remote /\ ~(Waiting \subseteq TextMessages)
  BY <1>1, <1>2 DEF Waiting
<1>6. Waiting' = Waiting \ (B \cup L)
  BY <1>1, <1>2, <1>3
<1>7. Batches' = Batches \cup {[messages |-> B, at |-> "running"]}
  <2>1. /\ tasks'[t].entry = B /\ tasks'[t].at = "running"
        /\ \A u \in Messages \ {t} : tasks'[u] = tasks[u]
    BY <1>1, <1>2
  <2> QED
    BY <1>2, <1>4, <2>1 DEF Batches
<1>8. UNCHANGED <<accepted, remote, dropped>>
  BY DEF Dequeue, historyVars
<1> HIDE DEF L
<1> QED
  BY <1>4, <1>5, <1>6, <1>7, <1>8, WaitingBoth DEF Mail!HandOver, Mail!MayLose, WaitingIs

\* What a task ends with is the end of its batch, and of no other one.
LEMMA LastMail ==
    ASSUME Inv, NEW t \in Messages, LastStep(t)
    PROVE  \/ \E b \in Batches : Mail!Finish(b)
           \/ UNCHANGED (Mail!mail)
<1>1. PICK end \in Mail!Ends :
         /\ tasks[t].at = "running"
         /\ tasks' = [tasks EXCEPT ![t].at = end]
         /\ UNCHANGED <<queue, buffer, accepted, remote, dropped>>
  BY DEF LastStep, Answered, Failed, Cancelled, queueVars, historyVars, Mail!Ends
<1>2. /\ tasks'[t].at = end /\ tasks'[t].entry = tasks[t].entry
      /\ \A u \in Messages \ {t} : tasks'[u] = tasks[u]
  <2>1. /\ tasks \in [Messages -> [at : TaskStates, entry : SUBSET Messages]]
        /\ tasks[t] \in [at : TaskStates, entry : SUBSET Messages]
    BY DEF Inv, Shapes
  <2> QED
    BY <1>1, <2>1
<1>3. UNCHANGED <<accepted, remote, InQueue \cup ToSet(buffer), dropped>>
  BY <1>1 DEF InQueue
<1>4. CASE tasks[t].entry = {}
  <2>1. Batches' = Batches
    BY <1>2, <1>4, BatchesKept
  <2> QED
    BY <1>3, <2>1 DEF Mail!mail
<1>5. CASE tasks[t].entry # {}
  <2> DEFINE b == [messages |-> tasks[t].entry, at |-> "running"]
             c == [messages |-> tasks[t].entry, at |-> end]
  <2>1. b \in Batches /\ b.at = "running" /\ b.messages = tasks[t].entry
    BY <1>1, <1>5 DEF Batches
  <2>2. ASSUME NEW u \in Messages \ {t}, tasks[u].entry # {}
        PROVE  [messages |-> tasks[u].entry, at |-> tasks[u].at] # b
    <3>1. tasks[u].entry # tasks[t].entry
      BY <1>5, <2>2 DEF Inv, Once
    <3> QED
      BY <3>1
  <2>3. Batches' = (Batches \ {b}) \cup {c}
    <3>1. ASSUME NEW x \in Batches' PROVE x \in (Batches \ {b}) \cup {c}
      BY <1>2, <2>2, <3>1 DEF Batches
    <3>2. ASSUME NEW x \in Batches, x # b PROVE x \in Batches'
      <4>1. PICK u \in Messages : /\ tasks[u].entry # {}
                                  /\ x = [messages |-> tasks[u].entry, at |-> tasks[u].at]
        BY <3>2 DEF Batches
      <4>2. u # t
        BY <1>1, <3>2, <4>1
      <4>3. tasks'[u] = tasks[u]
        BY <1>2, <4>2
      <4> QED
        BY <4>1, <4>3 DEF Batches
    <3>3. c \in Batches'
      BY <1>2, <1>5 DEF Batches
    <3> QED
      BY <3>1, <3>2, <3>3
  <2> HIDE DEF b
  <2>4. Mail!Finish(b)
    BY <1>3, <2>1, <2>3 DEF Mail!Finish
  <2> QED
    BY <2>1, <2>4
<1> QED
  BY <1>4, <1>5

\* Interrupts and the shutdown.
LEMMA DropMail ==
    ASSUME Inv, NEW D \in SUBSET Waiting, Waiting' = Waiting \ D, dropped' = dropped \cup D,
           UNCHANGED <<tasks, accepted, remote>>
    PROVE  Mail!Drop
<1>1. Batches' = Batches
  BY BatchesKept
<1> QED
  BY <1>1, WaitingBoth DEF Mail!Drop, WaitingIs

LEMMA QuietMail ==
    ASSUME UNCHANGED <<queue, buffer, accepted, remote, dropped>>, Batches' = Batches
    PROVE  UNCHANGED (Mail!mail)
  BY DEF Mail!mail, InQueue

LEMMA MailStep ==
    ASSUME Inv, Inv', [Next]_vars
    PROVE  [Mail!Next]_(Mail!mail)
<1> DEFINE Goal == Mail!Next \/ UNCHANGED (Mail!mail)
<1>0. /\ Shapes /\ tasks \in [Messages -> [at : TaskStates, entry : SUBSET Messages]]
      /\ \A t \in Messages : tasks[t].at \in {"none", "spawned", "idle"} => tasks[t].entry = {}
      /\ \A t \in Messages : tasks[t].at # "none" => t \in accepted
      /\ Held(queue) \cap ToSet(buffer) = {}
  BY DEF Inv, Shapes, Owners, Once, Orderly
<1>1. ASSUME NEW m \in Messages, AdapterMessage(m) PROVE Goal
  <2>1. m \notin accepted /\ accepted' = accepted \cup {m} /\ Joins(m)
    BY <1>0, <1>1, EnqueueJoins DEF AdapterMessage, AdapterModes
  <2>2. /\ remote' = remote /\ tasks[m].entry = {}
        /\ \A t \in Messages : tasks'[t].entry = tasks[t].entry
        /\ \A t \in Messages \ {m} : tasks'[t] = tasks[t]
    BY <1>0, <1>1, <2>1 DEF AdapterMessage
  <2>3. Batches' = Batches
    BY <2>2, BatchesKept
  <2> QED
    BY <2>1, <2>2, <2>3, JoinsMail DEF Mail!Next
<1>2. ASSUME NEW m \in Messages, Ingest(m) \/ StreamIngest(m) PROVE Goal
  <2>1. m \notin accepted /\ accepted' = accepted \cup {m} /\ Joins(m)
    BY <1>0, <1>2, EnqueueJoins DEF Ingest, StreamIngest
  <2>2. tasks' = tasks /\ remote' = remote \cup {m}
    BY <1>2 DEF Ingest, StreamIngest
  <2>3. Batches' = Batches
    BY <2>2, BatchesKept
  <2> QED
    BY <2>1, <2>2, <2>3, JoinsMail DEF Mail!Next
<1>3. ASSUME NEW t \in Messages, Dequeue(t) PROVE Goal
  BY <1>3, DequeueMail DEF Mail!Next
<1>4. ASSUME NEW t \in Messages, LastStep(t) PROVE Goal
  BY <1>4, LastMail DEF Mail!Next
<1>5. ASSUME NEW t \in Messages, NothingToDo(t) \/ Chunk(t) PROVE Goal
  <2>1. /\ UNCHANGED <<queue, buffer, accepted, remote, dropped>>
        /\ \A u \in Messages : tasks'[u].entry = tasks[u].entry
        /\ \A u \in Messages : tasks[u].entry = {} \/ tasks'[u].at = tasks[u].at
    BY <1>0, <1>5 DEF NothingToDo, Chunk, queueVars, historyVars
  <2> QED
    BY <2>1, BatchesKept, QuietMail
<1>6. ASSUME Interrupt PROVE Goal
  <2>1. CASE current
    <3>1. /\ queue' = <<>> /\ dropped' = dropped \cup Held(queue)
          /\ UNCHANGED <<buffer, tasks, accepted, remote>>
      BY <1>6, <2>1, QueueIs DEF Interrupt, InterruptQueue
    <3>2. Held(<<>>) = {}
      BY HeldIn
    <3>3. /\ Waiting' = Waiting \ Held(queue) /\ Held(queue) \in SUBSET Waiting
      BY <1>0, <3>1, <3>2 DEF Waiting
    <3> QED
      BY <3>1, <3>3, DropMail DEF Mail!Next
  <2>2. CASE ~current
    <3>1. UNCHANGED <<queue, buffer, accepted, remote, dropped, tasks>>
      BY <1>6, <2>2 DEF Interrupt, InterruptQueue
    <3> QED
      BY <3>1, BatchesKept, QuietMail
  <2> QED
    BY <2>1, <2>2
<1>7. ASSUME Stop PROVE Goal
  <2>1. /\ queue' = <<>> /\ buffer' = <<>> /\ dropped' = dropped \cup Waiting
        /\ UNCHANGED <<tasks, accepted, remote>>
    BY <1>7, QueueIs DEF Stop, Waiting
  <2>2. Held(<<>>) = {} /\ ToSet(<<>>) = {}
    BY HeldIn DEF ToSet
  <2>3. Waiting' = Waiting \ Waiting /\ Waiting \in SUBSET Waiting
    BY <2>1, <2>2 DEF Waiting
  <2> QED
    BY <2>1, <2>3, DropMail DEF Mail!Next
<1>8. ASSUME WindowExpires \/ UNCHANGED vars PROVE Goal
  <2>1. UNCHANGED <<queue, buffer, accepted, remote, dropped, tasks>>
    BY <1>8 DEF WindowExpires, vars, queueVars, historyVars
  <2> QED
    BY <2>1, BatchesKept, QuietMail
<1> HIDE DEF Goal
<1>9. Goal
  BY <1>1, <1>2, <1>3, <1>4, <1>5, <1>6, <1>7, <1>8 DEF Next, FirstStep
<1> QED
  BY <1>9 DEF Goal

\* The queue of a session, with its modes, windows, interrupts and tasks, is a
\* Mailbox, for any number of messages and whatever loops the adapters run on.
THEOREM QueueImplementsMailbox == Spec => MailKept
<1>1. Init => Mail!Init
  <2> SUFFICES ASSUME Init PROVE Mail!Init
    OBVIOUS
  <2>1. InQueue \cup ToSet(buffer) = {}
    BY QueueIs, HeldIn DEF Init, ToSet
  <2>2. Batches = {}
    BY DEF Init, NoTask, Batches
  <2> QED
    BY <2>1, <2>2 DEF Init, Mail!Init
<1>2. Inv /\ Inv' /\ [Next]_vars => [Mail!Next]_(Mail!mail)
  BY MailStep
<1> QED
  BY <1>1, <1>2, Invariant, PTL DEF Spec, MailKept, Mail!Spec
=============================================================================
