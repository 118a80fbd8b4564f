------------------------------ MODULE JobPool ------------------------------
(***************************************************************************)
(* What the task queue promises, without threads, locks or a history: at   *)
(* most MaxWorkers jobs run at a time, every job ends in one way, once,    *)
(* and whoever asks about a job waits until it ended and is told how, with *)
(* a result exactly if it completed.  "Unknown" is only ever said about a  *)
(* job that ended.  A job is lost when its thread was unwound: it no       *)
(* longer runs, but nobody is told.                                        *)
(***************************************************************************)
EXTENDS Naturals, FiniteSets

CONSTANTS Ids, Callers, MaxWorkers

VARIABLES
    job,     \* [Ids -> "new", "waiting", "running", or how the job ended]
    reply    \* [Callers -> what was asked, and answered]

pool == <<job, reply>>

Ended == {"completed", "failed"}
Running == {i \in Ids : job[i] = "running"}

Init == /\ job = [i \in Ids |-> "new"]
        /\ reply = [c \in Callers |-> [at |-> "idle"]]

Submit(i) == /\ job[i] = "new"
             /\ job' = [job EXCEPT ![i] = "waiting"]
             /\ UNCHANGED reply

Start(i) == /\ job[i] = "waiting"
            /\ Cardinality(Running) < MaxWorkers
            /\ job' = [job EXCEPT ![i] = "running"]
            /\ UNCHANGED reply

Finish(i) == /\ job[i] = "running"
             /\ \E s \in Ended \cup {"lost"} : job' = [job EXCEPT ![i] = s]
             /\ UNCHANGED reply

Ask(c, i) == /\ reply[c].at # "asked"
             /\ job[i] # "new"
             /\ reply' = [reply EXCEPT ![c] = [at |-> "asked", id |-> i]]
             /\ UNCHANGED job

Answer(c) == /\ reply[c].at = "asked"
             /\ LET i == reply[c].id
                IN  /\ job[i] \in Ended
                    /\ reply' = [reply EXCEPT ![c] =
                          [at |-> "answered", id |-> i, how |-> job[i],
                           result |-> job[i] = "completed"]]
             /\ UNCHANGED job

Unknown(c, i) == /\ reply[c].at # "asked"
                 /\ job[i] \in Ended
                 /\ reply' = [reply EXCEPT ![c] = [at |-> "unknown", id |-> i]]
                 /\ UNCHANGED job

Next == \/ \E i \in Ids : Submit(i) \/ Start(i) \/ Finish(i)
        \/ \E c \in Callers : Answer(c) \/ \E i \in Ids : Ask(c, i) \/ Unknown(c, i)

Spec == Init /\ [][Next]_pool
=============================================================================
