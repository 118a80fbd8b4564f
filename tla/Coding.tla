------------------------------- MODULE Coding -------------------------------
(***************************************************************************)
(* The coding tools: the edits of coding/aci.py, the circuit breaker of    *)
(* coding/circuit.py, the test runs of coding/harness.py, the causal gate  *)
(* of coding/policy.py in front of the git_commit tool, and the ticket run *)
(* of coding/orchestrator.py that strings them together.                   *)
(*                                                                         *)
(* Breaker and gate are objects of the process; every engine run of the    *)
(* process calls the tools on them, from threads of its own and without a  *)
(* lock.  A step below is what a call does between two places where        *)
(* another thread is likely to come in: a file is written, the tests or    *)
(* git run, a log is appended.                                             *)
(*                                                                         *)
(* The text of a file is abstracted to what the gate is about: whether the *)
(* last accepted test run has seen it.                                     *)
(***************************************************************************)
EXTENDS Integers, Sequences, FiniteSets

CONSTANTS
  Agents,      \* the threads that call tools
  Files,       \* the files of the project
  Errors,      \* error fingerprints
  MaxStrikes,  \* CircuitBreaker._max_strikes
  MaxSameFp,   \* max_same_fp of a ticket run
  MaxCalls     \* bound of the model: tool calls that are made at all

ASSUME CodingAssumption ==
  /\ IsFiniteSet(Agents)
  /\ MaxStrikes \in Nat \ {0} /\ MaxSameFp \in Nat \ {0} /\ MaxCalls \in Nat

(* The breaker keys its tables with the path as it is handed over: an      *)
(* absolute one by edit_symbol and apply_patch, the caller's spelling by   *)
(* edit_lines, by a ticket and by the breaker's own tools.                 *)
Names == Files \X {"absolute", "relative"}
File(n) == n[1]
Absolute(f) == <<f, "absolute">>

VARIABLES
  strikes,    \* RepairTracker._records: failures on record of a name
  history,    \* RepairTracker._history: failures with a fingerprint
  tripped,    \* CircuitBreaker._tripped
  pending,    \* CausalState._pending_writes is not empty
  green,      \* CausalState._last_verify_ok
  at,         \* the call each agent is in
  calls,      \* calls made so far
  unseen,     \* files changed since the last accepted test run began
  slipped,    \* ... of them, changed in a way the gate does not record
  proved,     \* no write on record is younger than the last passing run
  replans     \* tickets answered "replanned", by fingerprint

breakerVars == <<strikes, history, tripped>>
gateVars == <<pending, green, proved>>
fileVars == <<unseen, slipped>>
vars == <<breakerVars, gateVars, fileVars, at, calls, replans>>

Idle == [pc |-> "idle", todo |-> <<>>, done |-> <<>>, ticket |-> "no",
         track |-> {}, err |-> {}, changed |-> {}, stop |-> FALSE,
         stale |-> FALSE]

Init ==
  /\ strikes = [n \in Names |-> 0]
  /\ history = [e \in Errors |-> 0]
  /\ tripped = {}
  /\ pending = FALSE /\ green = FALSE
  /\ at = [a \in Agents |-> Idle]
  /\ calls = 0
  /\ unseen = {} /\ slipped = {} /\ proved = TRUE
  /\ replans = [e \in Errors |-> 0]

(***************************************************************************)
(* Moving a call on.  The edit of a ticket is followed by its test run;    *)
(* any other call is answered.                                             *)
(***************************************************************************)
Goto(a, c) == at' = [at EXCEPT ![a] = c]

Return(c) == IF c.ticket = "edit" THEN [Idle EXCEPT !.pc = "test", !.ticket = "edit",
                                                    !.track = c.track]
             ELSE Idle

(* The agent's step changes the files fs; test runs that are under way     *)
(* have not seen the change.                                               *)
Change(fs, a, c) ==
  /\ at' = [b \in Agents |-> IF b = a THEN c
                             ELSE IF at[b].pc = "verify"
                                  THEN [at[b] EXCEPT !.changed = @ \cup fs]
                                  ELSE at[b]]
  /\ unseen' = unseen \cup fs
  /\ slipped' = slipped \cup fs

Begin(a, c) ==
  /\ at[a] = Idle
  /\ calls < MaxCalls
  /\ calls' = calls + 1
  /\ Goto(a, c)
  /\ UNCHANGED <<breakerVars, gateVars, fileVars, replans>>

(***************************************************************************)
(* One edit: edit_symbol(), edit_lines() and write_file().                 *)
(***************************************************************************)
Edit(n) == [Idle EXCEPT !.pc = "edit", !.todo = <<n>>]

BeginEdit(a, n) == n \notin tripped /\ Begin(a, Edit(n))

BeginWrite(a, f) == Begin(a, [Edit(Absolute(f)) EXCEPT !.pc = "write"])

EditWrites(a) ==
  LET c == at[a] IN
  /\ c.pc \in {"edit", "write"}
  /\ Change({File(Head(c.todo))}, a,
            [c EXCEPT !.pc = IF @ = "edit" THEN "edited" ELSE "record"])
  /\ UNCHANGED <<breakerVars, gateVars, calls, replans>>

(* The new text has a syntax error: nothing is written, the name pays. *)
EditRejected(a) ==
  /\ at[a].pc = "edit"
  /\ \E e \in Errors : Goto(a, [at[a] EXCEPT !.pc = "charge", !.err = {e}])
  /\ UNCHANGED <<breakerVars, gateVars, fileVars, calls, replans>>

(* No such symbol, a secret in the text, a disk error: nobody pays. *)
EditImpossible(a) ==
  /\ at[a].pc \in {"edit", "write"}
  /\ Goto(a, Return(at[a]))
  /\ UNCHANGED <<breakerVars, gateVars, fileVars, calls, replans>>

(* Mutants: a success takes one strike off, or forgets the fingerprints.   *)
ClearedOne(n) ==
  /\ strikes' = [strikes EXCEPT ![n] = @ - 1]
  /\ UNCHANGED <<history, tripped>>
ClearedAll(n) ==
  /\ strikes' = [strikes EXCEPT ![n] = 0]
  /\ history' = [e \in Errors |-> 0]
  /\ UNCHANGED tripped

(* clear_file(): the strikes of the name go, its fingerprints stay. *)
Cleared(n) ==
  /\ strikes' = [strikes EXCEPT ![n] = 0]
  /\ UNCHANGED <<history, tripped>>

(* after_edit(success=True) of an edit, which then goes on record. *)
EditSucceeds(a) ==
  /\ at[a].pc = "edited"
  /\ Cleared(Head(at[a].todo))
  /\ Goto(a, [at[a] EXCEPT !.pc = "record"])
  /\ UNCHANGED <<gateVars, fileVars, calls, replans>>

(* Mutant: the write does not invalidate the last green result.            *)
RecordQuietly(f) ==
  /\ pending' = TRUE
  /\ proved' = FALSE
  /\ slipped' = slipped \ {f}
  /\ UNCHANGED green

(* record_coding_write() *)
RecordWrite(f) ==
  /\ pending' = TRUE
  /\ green' = FALSE
  /\ proved' = FALSE
  /\ slipped' = slipped \ {f}

EditRecorded(a) ==
  /\ at[a].pc = "record"
  /\ RecordWrite(File(Head(at[a].todo)))
  /\ Goto(a, Return(at[a]))
  /\ UNCHANGED <<breakerVars, unseen, calls, replans>>

(***************************************************************************)
(* apply_patch(): file after file; a failure restores what was there and   *)
(* charges the files that had been written, not the one that failed.       *)
(***************************************************************************)
Patches == {<<Absolute(f)>> : f \in Files}
             \cup {<<Absolute(p[1]), Absolute(p[2])>> :
                     p \in {q \in Files \X Files : q[1] # q[2]}}

Patch(names) == [Idle EXCEPT !.pc = "patch", !.todo = names]

BeginPatch(a, names) == Begin(a, Patch(names))

PatchWrites(a) ==
  LET c == at[a] IN
  /\ c.pc = "patch"
  /\ Head(c.todo) \notin tripped
  /\ Change({File(Head(c.todo))}, a, [c EXCEPT !.pc = "patched"])
  /\ UNCHANGED <<breakerVars, gateVars, calls, replans>>

PatchRecorded(a) ==
  /\ at[a].pc = "patched"
  /\ RecordWrite(File(Head(at[a].todo)))
  /\ Goto(a, [at[a] EXCEPT !.pc = "applied"])
  /\ UNCHANGED <<breakerVars, unseen, calls, replans>>

PatchApplied(a) ==
  LET c == at[a] IN
  /\ c.pc = "applied"
  /\ Cleared(Head(c.todo))
  /\ Goto(a, IF Len(c.todo) = 1 THEN Return(c)
             ELSE [c EXCEPT !.pc = "patch", !.todo = Tail(@),
                            !.done = Append(@, Head(c.todo))])
  /\ UNCHANGED <<gateVars, fileVars, calls, replans>>

(* The breaker refuses the file, or a hunk does not fit, or the result has *)
(* a syntax error.  The file at hand was backed up too unless refused.     *)
PatchFails(a) ==
  LET c == at[a]
      backups == {File(c.done[i]) : i \in DOMAIN c.done}
                   \cup (IF Head(c.todo) \in tripped THEN {} ELSE {File(Head(c.todo))})
  IN
  /\ c.pc = "patch"
  /\ \E e \in Errors :
       Change(backups, a, IF c.done = <<>> THEN Return(c)
                          ELSE [c EXCEPT !.pc = "charge", !.todo = c.done,
                                         !.done = <<>>, !.err = {e}])
  /\ UNCHANGED <<breakerVars, gateVars, calls, replans>>

(***************************************************************************)
(* after_edit(success=False): put the failure on record, read the two      *)
(* counters, trip, and take the file back to the last commit.              *)
(***************************************************************************)
NextCharge(c) ==
  IF Len(c.todo) > 1 THEN [c EXCEPT !.pc = "charge", !.todo = Tail(@)]
  ELSE IF c.ticket = "verify" THEN [c EXCEPT !.pc = "conclude"]
  ELSE Return(c)

Charge(a) ==
  /\ at[a].pc = "charge"
  /\ strikes' = [strikes EXCEPT ![Head(at[a].todo)] = @ + 1]
  /\ \E e \in at[a].err : history' = [history EXCEPT ![e] = @ + 1]
  /\ Goto(a, [at[a] EXCEPT !.pc = "judge"])
  /\ UNCHANGED <<tripped, gateVars, fileVars, calls, replans>>

Trips(n, e) == strikes[n] >= MaxStrikes \/ history[e] >= MaxStrikes

Judge(a) ==
  LET c == at[a]
      n == Head(c.todo)
  IN
  /\ c.pc = "judge"
  /\ \E e \in c.err :
       IF Trips(n, e)
       THEN /\ tripped' = tripped \cup {n}
            /\ Goto(a, [c EXCEPT !.pc = "rollback", !.stop = TRUE])
       ELSE /\ UNCHANGED tripped
            /\ Goto(a, [NextCharge(c) EXCEPT !.stop = history[e] >= MaxSameFp])
  /\ UNCHANGED <<strikes, history, gateVars, fileVars, calls, replans>>

(* git checkout -- file; no change if the file is clean or git fails.      *)
Rollback(a) ==
  LET c == at[a] IN
  /\ c.pc = "rollback"
  /\ \/ Change({File(Head(c.todo))}, a, NextCharge(c))
     \/ Goto(a, NextCharge(c)) /\ UNCHANGED fileVars
  /\ UNCHANGED <<breakerVars, gateVars, calls, replans>>

(***************************************************************************)
(* The breaker's own tools.                                                *)
(***************************************************************************)
BeginReport(a, n) ==
  \E e \in Errors :
    Begin(a, [Idle EXCEPT !.pc = "charge", !.todo = <<n>>, !.err = {e}])

ReportSuccess(a, n) ==
  /\ at[a] = Idle
  /\ calls < MaxCalls /\ calls' = calls + 1
  /\ Cleared(n)
  /\ UNCHANGED <<gateVars, fileVars, at, replans>>

ResetFile(a, n) ==
  /\ at[a] = Idle
  /\ calls < MaxCalls /\ calls' = calls + 1
  /\ strikes' = [strikes EXCEPT ![n] = 0]
  /\ tripped' = tripped \ {n}
  /\ UNCHANGED <<history, gateVars, fileVars, at, replans>>

(* A ticket that has counted its failure and is not answered yet; after a  *)
(* reset it belongs to the past.                                           *)
Counting(c) == c.ticket = "verify" /\ c.pc \in {"judge", "rollback", "conclude"}

ResetAll(a) ==
  /\ at[a] = Idle
  /\ calls < MaxCalls /\ calls' = calls + 1
  /\ strikes' = [n \in Names |-> 0]
  /\ history' = [e \in Errors |-> 0]
  /\ tripped' = {}
  /\ replans' = [e \in Errors |-> 0]
  /\ at' = [b \in Agents |->
              [at[b] EXCEPT !.stale = @ \/ Counting(at[b])]]
  /\ UNCHANGED <<gateVars, fileVars>>

(***************************************************************************)
(* coding_verify() and the gate.                                           *)
(***************************************************************************)
BeginVerify(a) == Begin(a, [Idle EXCEPT !.pc = "verify"])

StartTests(a) ==
  /\ at[a].pc = "test"
  /\ Goto(a, [at[a] EXCEPT !.pc = "verify"])
  /\ UNCHANGED <<breakerVars, gateVars, fileVars, calls, replans>>

(* pytest ends with 0; or reports passed tests and errors but no failure;  *)
(* or anything else.                                                       *)
Results == {"passed", "broken", "failed"}

(* record_verify(): "passed > 0 and not failed" is enough.                 *)
Accepted(result) == result \in {"passed", "broken"}

RecordVerify(result, changed) ==
  /\ green' = Accepted(result)
  /\ pending' = (pending /\ ~Accepted(result))
  /\ unseen' = IF Accepted(result) THEN changed ELSE unseen
  /\ slipped' = IF Accepted(result) THEN changed ELSE slipped
  /\ proved' = (proved \/ result = "passed")

VerifyEnds(a) ==
  LET c == at[a] IN
  /\ c.pc = "verify"
  /\ \E result \in Results :
       /\ RecordVerify(result, c.changed)
       /\ IF c.ticket = "no" \/ result = "passed" THEN Goto(a, Idle)
          ELSE \E n \in c.track, e \in Errors :
                 Goto(a, [Idle EXCEPT !.pc = "charge", !.todo = <<n>>, !.err = {e},
                                      !.ticket = "verify"])
  /\ UNCHANGED <<breakerVars, calls, replans>>

(* check_git_commit_allowed() *)
CommitAllowed == ~pending \/ green

BeginCommit(a) == CommitAllowed /\ Begin(a, [Idle EXCEPT !.pc = "commit"])

CommitEnds(a) ==
  /\ at[a].pc = "commit"
  /\ Goto(a, Idle)
  /\ UNCHANGED <<breakerVars, gateVars, fileVars, calls, replans>>

(***************************************************************************)
(* coding_run_ticket(): edit, test run, breaker, answer.  The edit may be  *)
(* missing or refused; the failure is charged to the caller's spelling.    *)
(***************************************************************************)
BeginTicket(a, n) ==
  LET ticket(c) == [c EXCEPT !.ticket = "edit", !.track = {n}]
      full == Absolute(File(n))
  IN
  \/ full \notin tripped /\ Begin(a, ticket(Edit(full)))
  \/ \E names \in Patches : Begin(a, ticket(Patch(names)))
  \/ Begin(a, [ticket(Idle) EXCEPT !.pc = "test"])

(* A failed ticket is handed off if the breaker tripped or the fingerprint *)
(* is known too well; otherwise it is answered with a new plan.            *)
Conclude(a) ==
  LET c == at[a] IN
  /\ c.pc = "conclude"
  /\ replans' = [e \in Errors |->
                   IF e \in c.err /\ ~c.stop /\ ~c.stale THEN replans[e] + 1
                   ELSE replans[e]]
  /\ Goto(a, Idle)
  /\ UNCHANGED <<breakerVars, gateVars, fileVars, calls>>

EditStep(a) == EditWrites(a) \/ EditRejected(a) \/ EditImpossible(a)
                 \/ EditSucceeds(a) \/ EditRecorded(a)
PatchStep(a) == PatchWrites(a) \/ PatchRecorded(a) \/ PatchApplied(a) \/ PatchFails(a)
BreakerStep(a) == Charge(a) \/ Judge(a) \/ Rollback(a)
VerifyStep(a) == StartTests(a) \/ VerifyEnds(a) \/ Conclude(a) \/ CommitEnds(a)

Call(a) ==
  \/ \E n \in Names : \/ BeginEdit(a, n) \/ BeginTicket(a, n)
                      \/ BeginReport(a, n) \/ ReportSuccess(a, n) \/ ResetFile(a, n)
  \/ \E f \in Files : BeginWrite(a, f)
  \/ \E names \in Patches : BeginPatch(a, names)
  \/ ResetAll(a) \/ BeginVerify(a) \/ BeginCommit(a)

Next == \E a \in Agents : \/ Call(a) \/ EditStep(a) \/ PatchStep(a)
                          \/ BreakerStep(a) \/ VerifyStep(a)

Spec == Init /\ [][Next]_vars

(***************************************************************************)
(* Properties                                                              *)
(***************************************************************************)
Places == {"idle", "edit", "write", "edited", "record", "patch", "patched",
             "applied", "charge", "judge", "rollback", "conclude", "test",
             "verify", "commit"}

CallRecords == [pc : Places, todo : Seq(Names), done : Seq(Names),
                ticket : {"no", "edit", "verify"}, track : SUBSET Names,
                err : SUBSET Errors, changed : SUBSET Files,
                stop : BOOLEAN, stale : BOOLEAN]

(* Types of the breaker's tables, the gate and the calls in progress. *)
TypeOK ==
  /\ strikes \in [Names -> Nat] /\ history \in [Errors -> Nat]
  /\ tripped \subseteq Names
  /\ pending \in BOOLEAN /\ green \in BOOLEAN /\ proved \in BOOLEAN
  /\ unseen \subseteq Files /\ slipped \subseteq Files
  /\ calls \in 0..MaxCalls /\ replans \in [Errors -> Nat]
  /\ at \in [Agents -> CallRecords]

(* While git_commit is allowed, every file that the last accepted test run *)
(* has not seen was changed where the gate cannot look: the write is not   *)
(* on record yet, it fell into that test run, or a rollback or the failure *)
(* of a patch put an old text back (policy.py record_write, record_verify, *)
(* check_git_commit_allowed; every edit path of aci.py).                   *)
GateHolds == CommitAllowed => unseen \subseteq slipped

(* "Stop thrashing": between two resets of the breaker, fewer tickets than *)
(* either threshold are answered with a new plan for one and the same      *)
(* failure, however many runs, edits and reports of other threads come in  *)
(* between (circuit.py after_edit, orchestrator.py lines 652-751).         *)
NoThrash == \A e \in Errors : replans[e] < MaxStrikes /\ replans[e] < MaxSameFp

(* FALSE of the code.  The docstring of check_git_commit_allowed() and the *)
(* comment of the git_commit tool: commits are blocked after coding writes *)
(* until the tests are green.  A run with errors and no failures opens the *)
(* gate although coding_verify() reports it as failed.                     *)
CommitOnGreen ==
  [][\A a \in Agents : at[a].pc # "commit" /\ at'[a].pc = "commit" => proved]_vars
=============================================================================
