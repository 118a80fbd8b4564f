----------------------------- MODULE SerialRuns -----------------------------
(***************************************************************************)
(* What run_task() promises its callers, without locks, shared state or    *)
(* spirals: the goals that requests submit are pursued one at a time, and  *)
(* a request that is answered is answered with what its own goal came to.  *)
(* A request may also end with an exception, or with the process.          *)
(***************************************************************************)
CONSTANTS Requests, NoRun

VARIABLES
    stage,    \* [Requests -> "idle", "waiting", "pursued", "answered", "over"]
    answer    \* [Requests -> whose result the request was given]

service == <<stage, answer>>

Served == {r \in Requests : stage[r] \in {"pursued", "answered"}}

Init == /\ stage = [r \in Requests |-> "idle"]
        /\ answer = [r \in Requests |-> NoRun]

Move(r, from, to) == /\ stage[r] \in from
                     /\ stage' = [stage EXCEPT ![r] = to]

Submit(r) == Move(r, {"idle"}, "waiting") /\ UNCHANGED answer

Pursue(r) == /\ Served = {}
             /\ Move(r, {"waiting"}, "pursued")
             /\ UNCHANGED answer

Answer(r) == /\ Move(r, {"pursued"}, "answered")
             /\ answer' = [answer EXCEPT ![r] = r]

End(r) == /\ Move(r, {"pursued", "answered"}, "over")
          /\ answer' = [answer EXCEPT ![r] = NoRun]

ProcessEnds ==
    /\ stage' = [r \in Requests |-> IF stage[r] = "idle" THEN "idle" ELSE "over"]
    /\ answer' = [r \in Requests |-> NoRun]

Next == \/ ProcessEnds
        \/ \E r \in Requests : Submit(r) \/ Pursue(r) \/ Answer(r) \/ End(r)

Spec == Init /\ [][Next]_service
=============================================================================
