---------------------------- MODULE Coding_proof ----------------------------
(***************************************************************************)
(* Proofs about Coding: the types, the commit gate, the bound on the       *)
(* tickets that are answered with a new plan, and the limit of strikes.    *)
(***************************************************************************)
EXTENDS Coding, FiniteSetTheorems, SequenceTheorems, TLAPS

(***************************************************************************)
(* Calls in progress.                                                      *)
(***************************************************************************)

\* The places at which a call has a file at hand, and a failure at hand.
Handling == {"edit", "write", "edited", "record", "patch", "patched",
             "applied", "charge", "judge", "rollback"}
Failing == {"charge", "judge", "rollback", "conclude"}

WellFormed(c) ==
  /\ c.pc \in Handling => c.todo # <<>>
  /\ c.pc \in Failing => \E e \in Errors : c.err = {e}
  /\ c.pc = "conclude" => c.ticket = "verify"
  /\ c.pc = "rollback" => c.stop

CallsOK == \A a \in Agents : WellFormed(at[a])

\* An idle call is a call.
LEMMA IdleOK == Idle \in CallRecords /\ WellFormed(Idle) /\ ~Counting(Idle)
  <1>1. <<>> \in Seq(Names)
    OBVIOUS
  <1>2. Idle \in CallRecords
    BY <1>1 DEF Idle, CallRecords, Places
  <1> QED
    BY <1>2 DEF Idle, WellFormed, Counting, Handling, Failing

\* An answered call is idle or waits for the tests of its ticket.
LEMMA ReturnOK ==
  ASSUME NEW c \in CallRecords
  PROVE  Return(c) \in CallRecords /\ WellFormed(Return(c)) /\ ~Counting(Return(c))
  <1>1. CASE c.ticket = "edit"
    <2>1. c.track \in SUBSET Names
      BY DEF CallRecords
    <2>2. Return(c) = [Idle EXCEPT !.pc = "test", !.ticket = "edit", !.track = c.track]
      BY <1>1 DEF Return
    <2>3. Return(c) \in CallRecords
      BY <2>1, <2>2, IdleOK DEF CallRecords, Places
    <2>4. Return(c).pc = "test"
      BY <2>2 DEF Idle
    <2> QED
      BY <2>3, <2>4 DEF WellFormed, Counting, Handling, Failing
  <1>2. CASE c.ticket # "edit"
    BY <1>2, IdleOK DEF Return
  <1> QED
    BY <1>1, <1>2

\* A sequence of two or more elements has a tail.
LEMMA TailOK ==
  ASSUME NEW S, NEW s \in Seq(S), Len(s) > 1
  PROVE  Tail(s) \in Seq(S) /\ Tail(s) # <<>>
  <1>1. Tail(s) \in Seq(S) /\ Len(Tail(s)) = Len(s) - 1
    BY s # <<>>
  <1>2. Len(Tail(s)) # 0
    BY <1>1
  <1>3. Len(<<>>) = 0
    OBVIOUS
  <1> QED
    BY <1>1, <1>2, <1>3

\* A sequence with elements has one, or more.
LEMMA LongOK ==
  ASSUME NEW S, NEW s \in Seq(S), s # <<>>, Len(s) # 1
  PROVE  Len(s) > 1
  <1>1. Len(s) \in Nat
    OBVIOUS
  <1>2. Len(s) # 0
    OBVIOUS
  <1>3. \A k \in Nat : k # 0 /\ k # 1 => k > 1
    OBVIOUS
  <1> QED
    BY <1>1, <1>2, <1>3, Zenon

\* The breaker turns to the next name it has to charge, or is done.
LEMMA NextChargeOK ==
  ASSUME NEW c \in CallRecords, c.todo # <<>>, NEW e \in Errors, c.err = {e}
  PROVE  /\ NextCharge(c) \in CallRecords
         /\ WellFormed(NextCharge(c))
         /\ NextCharge(c).pc # "rollback"
         /\ Counting(NextCharge(c)) =>
              /\ NextCharge(c).pc = "conclude" /\ c.ticket = "verify"
              /\ NextCharge(c).err = c.err /\ NextCharge(c).stale = c.stale
              /\ NextCharge(c).stop = c.stop
  <1>1. c.todo \in Seq(Names)
    BY DEF CallRecords
  <1>2. CASE Len(c.todo) > 1
    <2>1. Tail(c.todo) \in Seq(Names) /\ Tail(c.todo) # <<>>
      BY <1>1, <1>2, TailOK
    <2>2. NextCharge(c) = [c EXCEPT !.pc = "charge", !.todo = Tail(@)]
      BY <1>2 DEF NextCharge
    <2> QED
      BY <2>1, <2>2 DEF CallRecords, WellFormed, Counting, Handling, Failing, Places
  <1>3. CASE ~(Len(c.todo) > 1) /\ c.ticket = "verify"
    <2>1. NextCharge(c) = [c EXCEPT !.pc = "conclude"]
      BY <1>3 DEF NextCharge
    <2> QED
      BY <1>3, <2>1 DEF CallRecords, WellFormed, Counting, Handling, Failing, Places
  <1>4. CASE ~(Len(c.todo) > 1) /\ c.ticket # "verify"
    <2>1. NextCharge(c) = Return(c)
      BY <1>4 DEF NextCharge
    <2>2. Return(c).pc # "rollback"
      BY DEF Return, Idle
    <2> QED
      BY <2>1, <2>2, ReturnOK
  <1> QED
    BY <1>2, <1>3, <1>4

\* A step that moves one call on keeps the others.
LEMMA GotoOK ==
  ASSUME TypeOK, CallsOK, NEW a \in Agents, NEW c \in CallRecords, WellFormed(c),
         Goto(a, c)
  PROVE  at' \in [Agents -> CallRecords] /\ CallsOK'
  BY DEF Goto, TypeOK, CallsOK

\* ... so does one that changes files.
LEMMA ChangeOK ==
  ASSUME TypeOK, CallsOK, NEW a \in Agents, NEW c \in CallRecords, WellFormed(c),
         NEW fs \in SUBSET Files, Change(fs, a, c)
  PROVE  /\ at' \in [Agents -> CallRecords] /\ CallsOK'
         /\ unseen' \subseteq Files /\ slipped' \subseteq Files
  <1> DEFINE seen(b) == [at[b] EXCEPT !.changed = @ \cup fs]
  <1>1. ASSUME NEW b \in Agents
        PROVE  seen(b) \in CallRecords /\ WellFormed(seen(b))
    <2>1. at[b] \in CallRecords /\ WellFormed(at[b])
      BY DEF TypeOK, CallsOK
    <2> QED
      BY <2>1 DEF CallRecords, WellFormed
  <1>2. ASSUME NEW b \in Agents
        PROVE  at'[b] \in CallRecords /\ WellFormed(at'[b])
    BY <1>1 DEF Change, TypeOK, CallsOK
  <1>3. at' \in [Agents -> CallRecords]
    BY <1>2 DEF Change
  <1> QED
    BY <1>2, <1>3 DEF Change, CallsOK, TypeOK

\* The name at hand is one, and its file is.
LEMMA HeadOK ==
  ASSUME TypeOK, CallsOK, NEW a \in Agents, at[a].pc \in Handling
  PROVE  /\ at[a] \in CallRecords /\ WellFormed(at[a])
         /\ at[a].todo # <<>> /\ at[a].todo \in Seq(Names)
         /\ Head(at[a].todo) \in Names
         /\ File(Head(at[a].todo)) \in Files
  <1>1. at[a] \in CallRecords /\ WellFormed(at[a])
    BY DEF TypeOK, CallsOK
  <1>2. at[a].todo \in Seq(Names) /\ at[a].todo # <<>>
    BY <1>1 DEF CallRecords, WellFormed
  <1>3. Head(at[a].todo) \in Names
    BY <1>2
  <1> QED
    BY <1>1, <1>2, <1>3 DEF Names, File

(***************************************************************************)
(* Types.                                                                  *)
(***************************************************************************)

Inv == TypeOK /\ CallsOK

\* An edit that begins is a call.
LEMMA EditOK ==
  ASSUME NEW n \in Names
  PROVE  Edit(n) \in CallRecords /\ WellFormed(Edit(n)) /\ Edit(n).ticket = "no"
  <1>1. <<n>> \in Seq(Names) /\ <<n>> # <<>>
    OBVIOUS
  <1>2. /\ Edit(n) \in CallRecords /\ Edit(n).pc = "edit"
        /\ Edit(n).todo = <<n>> /\ Edit(n).ticket = "no"
    BY <1>1, IdleOK DEF Edit, CallRecords, Places, Idle
  <1> QED
    BY <1>1, <1>2 DEF WellFormed, Failing

\* A patch names one file or two.
LEMMA PatchOK ==
  ASSUME NEW names \in Patches
  PROVE  Patch(names) \in CallRecords /\ WellFormed(Patch(names))
  <1> DEFINE S == Names
  <1>1. \A f \in Files : Absolute(f) \in S
    BY DEF Absolute, Names
  <1>2. names \in Seq(S) /\ names # <<>>
    <2>1. CASE \E f \in Files : names = <<Absolute(f)>>
      <3>1. PICK f \in Files : names = <<Absolute(f)>>
        BY <2>1
      <3> HIDE DEF S
      <3> QED
        BY <3>1, <1>1
    <2>2. CASE \E p \in Files \X Files : names = <<Absolute(p[1]), Absolute(p[2])>>
      <3>1. PICK p \in Files \X Files : names = <<Absolute(p[1]), Absolute(p[2])>>
        BY <2>2
      <3>2. Absolute(p[1]) \in S /\ Absolute(p[2]) \in S
        BY <1>1
      <3> HIDE DEF S
      <3> QED
        BY <3>1, <3>2
    <2> QED
      BY <2>1, <2>2 DEF Patches
  <1>3. Patch(names) \in CallRecords /\ Patch(names).pc = "patch"
          /\ Patch(names).todo = names
    BY <1>2, IdleOK DEF Patch, CallRecords, Places, Idle
  <1> QED
    BY <1>2, <1>3 DEF WellFormed, Failing

\* Beginning a call keeps the types.
LEMMA BeginOK ==
  ASSUME Inv, NEW a \in Agents, NEW c \in CallRecords, WellFormed(c), Begin(a, c)
  PROVE  Inv'
  <1>1. at' \in [Agents -> CallRecords] /\ CallsOK'
    BY GotoOK DEF Begin, Inv
  <1>2. calls' \in 0..MaxCalls
    BY CodingAssumption DEF Begin, Inv, TypeOK
  <1> QED
    BY <1>1, <1>2 DEF Begin, Inv, TypeOK, breakerVars, gateVars, fileVars

\* Every call an agent may make keeps the types.
LEMMA CallTypes ==
  ASSUME Inv, NEW a \in Agents, Call(a)
  PROVE  Inv'
  <1>1. ASSUME NEW n \in Names, BeginEdit(a, n) PROVE Inv'
    <2>1. Edit(n) \in CallRecords /\ WellFormed(Edit(n))
      BY EditOK
    <2> QED
      BY <1>1, <2>1, BeginOK DEF BeginEdit
  <1>2. ASSUME NEW f \in Files, BeginWrite(a, f) PROVE Inv'
    <2> DEFINE c == [Edit(Absolute(f)) EXCEPT !.pc = "write"]
    <2>1. Absolute(f) \in Names
      BY DEF Absolute, Names
    <2>2. c \in CallRecords /\ WellFormed(c)
      BY <2>1, EditOK DEF CallRecords, Places, WellFormed, Failing, Edit, Handling
    <2> QED
      BY <1>2, <2>2, BeginOK DEF BeginWrite
  <1>3. ASSUME NEW names \in Patches, BeginPatch(a, names) PROVE Inv'
    BY <1>3, PatchOK, BeginOK DEF BeginPatch
  <1>4. ASSUME NEW n \in Names, BeginReport(a, n) PROVE Inv'
    <2>1. PICK e \in Errors : Begin(a, [Idle EXCEPT !.pc = "charge", !.todo = <<n>>,
                                                    !.err = {e}])
      BY <1>4 DEF BeginReport
    <2> DEFINE c == [Idle EXCEPT !.pc = "charge", !.todo = <<n>>, !.err = {e}]
    <2>2. <<n>> \in Seq(Names) /\ <<n>> # <<>>
      OBVIOUS
    <2>3. /\ c \in CallRecords /\ c.pc = "charge" /\ c.todo = <<n>>
          /\ c.err = {e}
      BY <2>2, IdleOK DEF CallRecords, Places, Idle
    <2>4. WellFormed(c)
      BY <2>2, <2>3 DEF WellFormed
    <2> QED
      BY <2>1, <2>3, <2>4, BeginOK
  <1>5. ASSUME NEW n \in Names, BeginTicket(a, n) PROVE Inv'
    <2> DEFINE ticket(c) == [c EXCEPT !.ticket = "edit", !.track = {n}]
    <2>1. ASSUME NEW c \in CallRecords, WellFormed(c), c.pc # "conclude"
          PROVE  ticket(c) \in CallRecords /\ WellFormed(ticket(c))
      BY <2>1 DEF CallRecords, WellFormed
    <2>2. Absolute(File(n)) \in Names
      BY DEF Absolute, File, Names
    <2>3. /\ Edit(Absolute(File(n))).pc # "conclude"
          /\ \A names \in Patches : Patch(names).pc # "conclude"
          /\ [ticket(Idle) EXCEPT !.pc = "test"] \in CallRecords
          /\ WellFormed([ticket(Idle) EXCEPT !.pc = "test"])
      BY IdleOK DEF Edit, Patch, Idle, CallRecords, Places, WellFormed, Handling, Failing
    <2>4. CASE Begin(a, ticket(Edit(Absolute(File(n)))))
      BY <2>1, <2>2, <2>3, <2>4, EditOK, BeginOK
    <2>5. CASE \E names \in Patches : Begin(a, ticket(Patch(names)))
      BY <2>1, <2>3, <2>5, PatchOK, BeginOK
    <2>6. CASE Begin(a, [ticket(Idle) EXCEPT !.pc = "test"])
      BY <2>3, <2>6, BeginOK
    <2> QED
      BY <1>5, <2>4, <2>5, <2>6 DEF BeginTicket
  <1>6. ASSUME NEW n \in Names, ReportSuccess(a, n) \/ ResetFile(a, n) PROVE Inv'
    BY <1>6, CodingAssumption
    DEF ReportSuccess, ResetFile, Cleared, Inv, TypeOK, CallsOK, gateVars, fileVars
  <1>7. CASE ResetAll(a)
    <2>1. ASSUME NEW b \in Agents
          PROVE  at'[b] \in CallRecords /\ WellFormed(at'[b])
      <3>1. at[b] \in CallRecords /\ WellFormed(at[b]) /\ Counting(at[b]) \in BOOLEAN
        BY DEF Inv, TypeOK, CallsOK, Counting
      <3>2. at'[b] = [at[b] EXCEPT !.stale = @ \/ Counting(at[b])]
        BY <1>7 DEF ResetAll
      <3> QED
        BY <3>1, <3>2 DEF CallRecords, WellFormed
    <2>2. at' \in [Agents -> CallRecords] /\ CallsOK'
      BY <1>7, <2>1 DEF ResetAll, CallsOK
    <2> QED
      BY <1>7, <2>2, CodingAssumption DEF ResetAll, Inv, TypeOK, gateVars, fileVars
  <1>8. CASE BeginVerify(a)
    <2>1. /\ [Idle EXCEPT !.pc = "verify"] \in CallRecords
          /\ WellFormed([Idle EXCEPT !.pc = "verify"])
      BY IdleOK DEF Idle, CallRecords, Places, WellFormed, Handling, Failing
    <2> QED
      BY <1>8, <2>1, BeginOK DEF BeginVerify
  <1>9. CASE BeginCommit(a)
    <2>1. /\ [Idle EXCEPT !.pc = "commit"] \in CallRecords
          /\ WellFormed([Idle EXCEPT !.pc = "commit"])
      BY IdleOK DEF Idle, CallRecords, Places, WellFormed, Handling, Failing
    <2> QED
      BY <1>9, <2>1, BeginOK DEF BeginCommit
  <1> QED
    BY <1>1, <1>2, <1>3, <1>4, <1>5, <1>6, <1>7, <1>8, <1>9 DEF Call

\* Each step of an edit keeps the types.
LEMMA EditTypes ==
  ASSUME Inv, NEW a \in Agents, EditStep(a)
  PROVE  Inv'
  <1> DEFINE c == at[a]
  <1> USE DEF Inv
  <1>0. ASSUME c.pc \in Handling
        PROVE  /\ c \in CallRecords /\ WellFormed(c) /\ c.todo # <<>>
               /\ Head(c.todo) \in Names /\ File(Head(c.todo)) \in Files
               /\ Return(c) \in CallRecords /\ WellFormed(Return(c))
    BY <1>0, HeadOK, ReturnOK
  <1>1. CASE EditWrites(a)
    <2> DEFINE d == [c EXCEPT !.pc = IF @ = "edit" THEN "edited" ELSE "record"]
    <2>1. c.pc \in {"edit", "write"}
      BY <1>1 DEF EditWrites
    <2>2. d \in CallRecords /\ WellFormed(d)
      BY <2>1, <1>0 DEF CallRecords, Places, WellFormed, Handling, Failing
    <2>3. {File(Head(c.todo))} \in SUBSET Files /\ Change({File(Head(c.todo))}, a, d)
      BY <1>1, <2>1, <1>0 DEF EditWrites, Handling
    <2>4. /\ at' \in [Agents -> CallRecords] /\ CallsOK'
          /\ unseen' \subseteq Files /\ slipped' \subseteq Files
      BY <2>2, <2>3, ChangeOK
    <2> QED
      BY <1>1, <2>4, CodingAssumption DEF EditWrites, TypeOK, breakerVars, gateVars
  <1>2. CASE EditRejected(a)
    <2>1. PICK e \in Errors : Goto(a, [c EXCEPT !.pc = "charge", !.err = {e}])
      BY <1>2 DEF EditRejected
    <2>2. c.pc = "edit"
      BY <1>2 DEF EditRejected
    <2> DEFINE d == [c EXCEPT !.pc = "charge", !.err = {e}]
    <2>3. d \in CallRecords /\ d.pc = "charge" /\ d.err = {e} /\ d.todo = c.todo
      BY <2>2, <1>0 DEF CallRecords, Places, Handling
    <2>4. WellFormed(d)
      BY <2>2, <2>3, <1>0 DEF WellFormed, Handling
    <2>5. at' \in [Agents -> CallRecords] /\ CallsOK'
      BY <2>1, <2>3, <2>4, GotoOK
    <2> QED
      BY <1>2, <2>5, CodingAssumption
      DEF EditRejected, TypeOK, breakerVars, gateVars, fileVars
  <1>3. CASE EditImpossible(a)
    <2>1. at' \in [Agents -> CallRecords] /\ CallsOK'
      BY <1>3, <1>0, GotoOK DEF EditImpossible, Handling
    <2> QED
      BY <1>3, <2>1, CodingAssumption
      DEF EditImpossible, TypeOK, breakerVars, gateVars, fileVars
  <1>4. CASE EditSucceeds(a)
    <2>1. c.pc = "edited" /\ Goto(a, [c EXCEPT !.pc = "record"])
      BY <1>4 DEF EditSucceeds
    <2>2. /\ [c EXCEPT !.pc = "record"] \in CallRecords
          /\ WellFormed([c EXCEPT !.pc = "record"])
      BY <2>1, <1>0 DEF CallRecords, Places, WellFormed, Handling, Failing
    <2>3. at' \in [Agents -> CallRecords] /\ CallsOK'
      BY <2>1, <2>2, GotoOK
    <2> QED
      BY <1>4, <2>3, CodingAssumption
      DEF EditSucceeds, Cleared, TypeOK, gateVars, fileVars
  <1>5. CASE EditRecorded(a)
    <2>1. at' \in [Agents -> CallRecords] /\ CallsOK'
      BY <1>5, <1>0, GotoOK DEF EditRecorded, Handling
    <2> QED
      BY <1>5, <2>1, CodingAssumption
      DEF EditRecorded, RecordWrite, TypeOK, breakerVars
  <1> QED
    BY <1>1, <1>2, <1>3, <1>4, <1>5 DEF EditStep

\* Each step of a patch keeps the types.
LEMMA PatchTypes ==
  ASSUME Inv, NEW a \in Agents, PatchStep(a)
  PROVE  Inv'
  <1> DEFINE c == at[a]
  <1> USE DEF Inv
  <1>0. ASSUME c.pc \in Handling
        PROVE  /\ c \in CallRecords /\ WellFormed(c) /\ c.todo # <<>>
               /\ c.todo \in Seq(Names)
               /\ Head(c.todo) \in Names /\ File(Head(c.todo)) \in Files
               /\ Return(c) \in CallRecords /\ WellFormed(Return(c))
    BY <1>0, HeadOK, ReturnOK
  <1>1. CASE PatchWrites(a)
    <2> DEFINE d == [c EXCEPT !.pc = "patched"]
    <2>1. c.pc = "patch"
      BY <1>1 DEF PatchWrites
    <2>2. d \in CallRecords /\ WellFormed(d)
      BY <2>1, <1>0 DEF CallRecords, Places, WellFormed, Handling, Failing
    <2>3. {File(Head(c.todo))} \in SUBSET Files /\ Change({File(Head(c.todo))}, a, d)
      BY <1>1, <2>1, <1>0 DEF PatchWrites, Handling
    <2>4. /\ at' \in [Agents -> CallRecords] /\ CallsOK'
          /\ unseen' \subseteq Files /\ slipped' \subseteq Files
      BY <2>2, <2>3, ChangeOK
    <2> QED
      BY <1>1, <2>4, CodingAssumption DEF PatchWrites, TypeOK, breakerVars, gateVars
  <1>2. CASE PatchRecorded(a)
    <2>1. c.pc = "patched" /\ Goto(a, [c EXCEPT !.pc = "applied"])
      BY <1>2 DEF PatchRecorded
    <2>2. /\ [c EXCEPT !.pc = "applied"] \in CallRecords
          /\ WellFormed([c EXCEPT !.pc = "applied"])
      BY <2>1, <1>0 DEF CallRecords, Places, WellFormed, Handling, Failing
    <2>3. at' \in [Agents -> CallRecords] /\ CallsOK'
      BY <2>1, <2>2, GotoOK
    <2> QED
      BY <1>2, <2>3, CodingAssumption
      DEF PatchRecorded, RecordWrite, TypeOK, breakerVars
  <1>3. CASE PatchApplied(a)
    <2> DEFINE d == [c EXCEPT !.pc = "patch", !.todo = Tail(@),
                              !.done = Append(@, Head(c.todo))]
    <2>1. c.pc = "applied"
      BY <1>3 DEF PatchApplied
    <2>2. ASSUME Len(c.todo) = 1
          PROVE  at' \in [Agents -> CallRecords] /\ CallsOK'
      BY <1>3, <2>1, <2>2, <1>0, GotoOK DEF PatchApplied, Handling
    <2>3. ASSUME Len(c.todo) # 1
          PROVE  at' \in [Agents -> CallRecords] /\ CallsOK'
      <3>0. c.todo \in Seq(Names) /\ c.todo # <<>>
        BY <2>1, <1>0 DEF Handling
      <3>1. Len(c.todo) > 1
        BY <2>3, <3>0, LongOK
      <3>2. Tail(c.todo) \in Seq(Names) /\ Tail(c.todo) # <<>>
        BY <2>1, <3>1, <1>0, TailOK DEF Handling
      <3>3. Append(c.done, Head(c.todo)) \in Seq(Names)
        BY <2>1, <1>0 DEF Handling, CallRecords
      <3>4. d \in CallRecords /\ d.pc = "patch" /\ d.todo = Tail(c.todo)
        BY <2>1, <3>2, <3>3, <1>0 DEF CallRecords, Places, Handling
      <3>5. WellFormed(d)
        BY <3>2, <3>4 DEF WellFormed, Failing
      <3> QED
        BY <1>3, <2>3, <3>4, <3>5, GotoOK DEF PatchApplied
    <2>4. at' \in [Agents -> CallRecords] /\ CallsOK'
      BY <2>2, <2>3
    <2> QED
      BY <1>3, <2>4, CodingAssumption
      DEF PatchApplied, Cleared, TypeOK, gateVars, fileVars
  <1>4. CASE PatchFails(a)
    <2> DEFINE fs == {File(c.done[i]) : i \in DOMAIN c.done}
                       \cup (IF Head(c.todo) \in tripped THEN {} ELSE {File(Head(c.todo))})
               fail(e) == [c EXCEPT !.pc = "charge", !.todo = c.done,
                                    !.done = <<>>, !.err = {e}]
    <2>1. c.pc = "patch"
      BY <1>4 DEF PatchFails
    <2>2. PICK e \in Errors : Change(fs, a, IF c.done = <<>> THEN Return(c) ELSE fail(e))
      BY <1>4 DEF PatchFails
    <2>3. c.done \in Seq(Names)
      BY <2>1, <1>0 DEF CallRecords, Handling
    <2>4. fs \in SUBSET Files
      <3>1. \A i \in DOMAIN c.done : c.done[i] \in Names
        BY <2>3
      <3>2. \A n \in Names : File(n) \in Files
        BY DEF File, Names
      <3> QED
        BY <2>1, <3>1, <3>2, <1>0 DEF Handling
    <2> HIDE DEF fs
    <2>5. ASSUME c.done # <<>>
          PROVE  fail(e) \in CallRecords /\ WellFormed(fail(e))
      <3>1. c \in CallRecords
        BY <2>1, <1>0 DEF Handling
      <3>2. <<>> \in Seq(Names) /\ {e} \in SUBSET Errors
        OBVIOUS
      <3>3. fail(e) \in CallRecords
        BY <2>3, <3>1, <3>2 DEF CallRecords, Places
      <3>4. fail(e).pc = "charge" /\ fail(e).todo = c.done /\ fail(e).err = {e}
        BY <3>1 DEF CallRecords
      <3> QED
        BY <2>5, <3>3, <3>4 DEF WellFormed
    <2> DEFINE d == IF c.done = <<>> THEN Return(c) ELSE fail(e)
    <2>6. d \in CallRecords /\ WellFormed(d)
      BY <2>1, <2>5, <1>0 DEF Handling
    <2>7. /\ at' \in [Agents -> CallRecords] /\ CallsOK'
          /\ unseen' \subseteq Files /\ slipped' \subseteq Files
      BY <2>2, <2>4, <2>6, ChangeOK
    <2> QED
      BY <1>4, <2>7, CodingAssumption DEF PatchFails, TypeOK, breakerVars, gateVars
  <1> QED
    BY <1>1, <1>2, <1>3, <1>4 DEF PatchStep

\* Each step of the breaker keeps the types.
LEMMA BreakerTypes ==
  ASSUME Inv, NEW a \in Agents, BreakerStep(a)
  PROVE  Inv'
  <1> DEFINE c == at[a]
             n == Head(c.todo)
  <1> USE DEF Inv
  <1>0. c.pc \in {"charge", "judge", "rollback"}
    BY DEF BreakerStep, Charge, Judge, Rollback
  <1>1. /\ c \in CallRecords /\ WellFormed(c) /\ c.todo # <<>>
        /\ n \in Names /\ File(n) \in Files
    BY <1>0, HeadOK DEF Handling
  <1>2. PICK e \in Errors : c.err = {e}
    BY <1>0, <1>1 DEF WellFormed, Failing
  <1>3. /\ NextCharge(c) \in CallRecords /\ WellFormed(NextCharge(c))
        /\ NextCharge(c).pc # "rollback"
    BY <1>1, <1>2, NextChargeOK
  <1>4. CASE Charge(a)
    <2>1. /\ [c EXCEPT !.pc = "judge"] \in CallRecords
          /\ WellFormed([c EXCEPT !.pc = "judge"])
      BY <1>1, <1>2 DEF CallRecords, Places, WellFormed
    <2>2. at' \in [Agents -> CallRecords] /\ CallsOK'
      BY <1>4, <2>1, GotoOK DEF Charge
    <2>3. strikes' \in [Names -> Nat] /\ history' \in [Errors -> Nat]
      BY <1>4, <1>1, <1>2 DEF Charge, TypeOK
    <2> QED
      BY <1>4, <2>2, <2>3, CodingAssumption DEF Charge, TypeOK, gateVars, fileVars
  <1>5. CASE Judge(a)
    <2> DEFINE rb == [c EXCEPT !.pc = "rollback", !.stop = TRUE]
               nx == [NextCharge(c) EXCEPT !.stop = history[e] >= MaxSameFp]
    <2>1. rb \in CallRecords /\ WellFormed(rb)
      BY <1>1, <1>2 DEF CallRecords, Places, WellFormed
    <2>2. (history[e] >= MaxSameFp) \in BOOLEAN
      OBVIOUS
    <2>3. nx \in CallRecords /\ WellFormed(nx)
      BY <1>3, <2>2 DEF CallRecords, WellFormed
    <2>4. \/ Goto(a, rb) /\ tripped' = tripped \cup {n}
          \/ Goto(a, nx) /\ tripped' = tripped
      BY <1>5, <1>2 DEF Judge
    <2>5. at' \in [Agents -> CallRecords] /\ CallsOK'
      BY <2>1, <2>3, <2>4, GotoOK
    <2>6. tripped' \subseteq Names
      BY <2>4, <1>1 DEF TypeOK
    <2> QED
      BY <1>5, <2>5, <2>6, CodingAssumption DEF Judge, TypeOK, gateVars, fileVars
  <1>6. CASE Rollback(a)
    <2>1. CASE Change({File(n)}, a, NextCharge(c))
      <3>1. {File(n)} \in SUBSET Files
        BY <1>1
      <3>2. /\ at' \in [Agents -> CallRecords] /\ CallsOK'
            /\ unseen' \subseteq Files /\ slipped' \subseteq Files
        BY <2>1, <3>1, <1>3, ChangeOK
      <3> QED
        BY <1>6, <3>2, CodingAssumption DEF Rollback, TypeOK, breakerVars, gateVars
    <2>2. CASE Goto(a, NextCharge(c)) /\ UNCHANGED fileVars
      <3>1. at' \in [Agents -> CallRecords] /\ CallsOK'
        BY <2>2, <1>3, GotoOK
      <3> QED
        BY <1>6, <2>2, <3>1, CodingAssumption
        DEF Rollback, TypeOK, breakerVars, gateVars, fileVars
    <2> QED
      BY <1>6, <2>1, <2>2 DEF Rollback
  <1> QED
    BY <1>4, <1>5, <1>6 DEF BreakerStep

\* Each step of a test run, a commit or a ticket's end keeps the types.
LEMMA VerifyTypes ==
  ASSUME Inv, NEW a \in Agents, VerifyStep(a)
  PROVE  Inv'
  <1> DEFINE c == at[a]
  <1> USE DEF Inv
  <1>0. c \in CallRecords /\ WellFormed(c)
    BY DEF TypeOK, CallsOK
  <1>1. CASE StartTests(a)
    <2>1. /\ [c EXCEPT !.pc = "verify"] \in CallRecords
          /\ WellFormed([c EXCEPT !.pc = "verify"])
      BY <1>0 DEF CallRecords, Places, WellFormed, Handling, Failing
    <2>2. at' \in [Agents -> CallRecords] /\ CallsOK'
      BY <1>1, <2>1, GotoOK DEF StartTests
    <2> QED
      BY <1>1, <2>2, CodingAssumption
      DEF StartTests, TypeOK, breakerVars, gateVars, fileVars
  <1>2. CASE VerifyEnds(a)
    <2> DEFINE fail(n, e) == [Idle EXCEPT !.pc = "charge", !.todo = <<n>>, !.err = {e},
                                          !.ticket = "verify"]
    <2>1. ASSUME NEW n \in Names, NEW e \in Errors
          PROVE  fail(n, e) \in CallRecords /\ WellFormed(fail(n, e))
      <3>1. <<n>> \in Seq(Names) /\ <<n>> # <<>>
        OBVIOUS
      <3>2. /\ fail(n, e) \in CallRecords /\ fail(n, e).pc = "charge"
            /\ fail(n, e).todo = <<n>> /\ fail(n, e).err = {e}
        BY <3>1, IdleOK DEF CallRecords, Places, Idle
      <3> QED
        BY <3>1, <3>2 DEF WellFormed
    <2>2. c.track \subseteq Names /\ c.changed \subseteq Files
      BY <1>0 DEF CallRecords
    <2>3. \/ Goto(a, Idle)
          \/ \E n \in c.track, e \in Errors : Goto(a, fail(n, e))
      BY <1>2 DEF VerifyEnds
    <2>4. at' \in [Agents -> CallRecords] /\ CallsOK'
      BY <2>1, <2>2, <2>3, IdleOK, GotoOK
    <2>5. PICK result \in Results : RecordVerify(result, c.changed)
      BY <1>2 DEF VerifyEnds
    <2>6. /\ pending' \in BOOLEAN /\ green' \in BOOLEAN /\ proved' \in BOOLEAN
          /\ unseen' \subseteq Files /\ slipped' \subseteq Files
      BY <2>2, <2>5 DEF RecordVerify, Accepted, TypeOK
    <2> QED
      BY <1>2, <2>4, <2>6, CodingAssumption DEF VerifyEnds, TypeOK, breakerVars
  <1>3. CASE Conclude(a)
    <2>1. at' \in [Agents -> CallRecords] /\ CallsOK'
      BY <1>3, IdleOK, GotoOK DEF Conclude
    <2>2. replans' \in [Errors -> Nat]
      BY <1>3 DEF Conclude, TypeOK
    <2> QED
      BY <1>3, <2>1, <2>2, CodingAssumption
      DEF Conclude, TypeOK, breakerVars, gateVars, fileVars
  <1>4. CASE CommitEnds(a)
    <2>1. at' \in [Agents -> CallRecords] /\ CallsOK'
      BY <1>4, IdleOK, GotoOK DEF CommitEnds
    <2> QED
      BY <1>4, <2>1, CodingAssumption
      DEF CommitEnds, TypeOK, breakerVars, gateVars, fileVars
  <1> QED
    BY <1>1, <1>2, <1>3, <1>4 DEF VerifyStep

\* Every step keeps the types.
LEMMA InvStep ==
  ASSUME Inv, [Next]_vars
  PROVE  Inv'
  <1>1. CASE UNCHANGED vars
    BY <1>1 DEF vars, breakerVars, gateVars, fileVars, Inv, TypeOK, CallsOK
  <1>2. CASE Next
    BY <1>2, CallTypes, EditTypes, PatchTypes, BreakerTypes, VerifyTypes DEF Next
  <1> QED
    BY <1>1, <1>2

\* Types, in every reachable state.
LEMMA InvCorrect == Spec => []Inv
  <1>1. Init => Inv
    <2> SUFFICES ASSUME Init PROVE Inv
      OBVIOUS
    <2>1. at \in [Agents -> CallRecords] /\ CallsOK
      BY IdleOK DEF Init, CallsOK
    <2>2. /\ strikes \in [Names -> Nat] /\ history \in [Errors -> Nat]
          /\ replans \in [Errors -> Nat]
      BY DEF Init
    <2>3. calls \in 0..MaxCalls
      BY CodingAssumption DEF Init
    <2> QED
      BY <2>1, <2>2, <2>3 DEF Init, Inv, TypeOK
  <1>2. Inv /\ [Next]_vars => Inv'
    BY InvStep
  <1> QED
    BY <1>1, <1>2, PTL DEF Spec

\* The breaker's tables, the gate and the calls keep their types, for any
\* number of threads, files and fingerprints.
THEOREM TypeCorrect == Spec => []TypeOK
  BY InvCorrect, PTL DEF Inv

(***************************************************************************)
(* The gate.  A step leaves gate and files alone, or it is one of three    *)
(* kinds: it changes files behind the gate's back, it puts a write on      *)
(* record, or it ends a test run.                                          *)
(***************************************************************************)
Behind == \E fs : unseen' = unseen \cup fs /\ slipped' = slipped \cup fs
                    /\ UNCHANGED gateVars
OnRecord == pending' = TRUE /\ green' = FALSE
TestsEnd == \E result \in Results : \E changed : RecordVerify(result, changed)

\* Every step is of one of these kinds.
LEMMA GateSteps ==
  ASSUME Next
  PROVE  UNCHANGED <<gateVars, fileVars>> \/ Behind \/ OnRecord \/ TestsEnd
  <1> PICK a \in Agents : \/ Call(a) \/ EditStep(a) \/ PatchStep(a)
                          \/ BreakerStep(a) \/ VerifyStep(a)
    BY DEF Next
  <1>1. CASE Call(a)
    <2>1. ASSUME NEW c, Begin(a, c) PROVE UNCHANGED <<gateVars, fileVars>>
      BY <2>1 DEF Begin
    <2>2. ASSUME NEW n, ReportSuccess(a, n) \/ ResetFile(a, n) \/ ResetAll(a)
          PROVE  UNCHANGED <<gateVars, fileVars>>
      BY <2>2 DEF ReportSuccess, ResetFile, ResetAll
    <2> QED
      BY <1>1, <2>1, <2>2
      DEF Call, BeginEdit, BeginTicket, BeginReport, BeginWrite, BeginPatch,
          BeginVerify, BeginCommit
  <1>2. CASE EditStep(a)
    BY <1>2 DEF EditStep, EditWrites, EditRejected, EditImpossible, EditSucceeds,
                EditRecorded, RecordWrite, Change, Behind, OnRecord
  <1>3. CASE PatchStep(a)
    BY <1>3 DEF PatchStep, PatchWrites, PatchRecorded, PatchApplied, PatchFails,
                RecordWrite, Change, Behind, OnRecord
  <1>4. CASE BreakerStep(a)
    BY <1>4 DEF BreakerStep, Charge, Judge, Rollback, Change, Behind
  <1>5. CASE VerifyStep(a)
    BY <1>5 DEF VerifyStep, StartTests, VerifyEnds, Conclude, CommitEnds, TestsEnd
  <1> QED
    BY <1>1, <1>2, <1>3, <1>4, <1>5

\* Whatever the threads do, a commit that the gate allows comes with no
\* changed file on record that the last accepted test run has not seen.
THEOREM GateCorrect == Spec => []GateHolds
  <1>1. Init => GateHolds
    BY DEF Init, GateHolds
  <1>2. GateHolds /\ [Next]_vars => GateHolds'
    <2> SUFFICES ASSUME GateHolds, [Next]_vars PROVE GateHolds'
      OBVIOUS
    <2>1. CASE UNCHANGED <<gateVars, fileVars>>
      BY <2>1 DEF GateHolds, CommitAllowed, gateVars, fileVars
    <2>2. CASE Behind
      BY <2>2 DEF Behind, GateHolds, CommitAllowed, gateVars
    <2>3. CASE OnRecord
      BY <2>3 DEF OnRecord, GateHolds, CommitAllowed
    <2>4. CASE TestsEnd
      BY <2>4 DEF TestsEnd, RecordVerify, GateHolds, CommitAllowed
    <2> QED
      BY <2>1, <2>2, <2>3, <2>4, GateSteps DEF vars
  <1> QED
    BY <1>1, <1>2, PTL DEF Spec

(***************************************************************************)
(* Replans.  A ticket counts its failure when it is charged and has it     *)
(* judged before it is answered: a ticket that goes on to a new plan has   *)
(* seen a count below both thresholds, and that count includes every       *)
(* ticket that is on its way to an answer.                                 *)
(***************************************************************************)
Inflight(e) == {a \in Agents : Counting(at[a]) /\ ~at[a].stale /\ at[a].err = {e}}

Clear(e) == {a \in Inflight(e) : at[a].pc = "conclude" /\ ~at[a].stop}

Counted(e) == replans[e] + Cardinality(Inflight(e)) <= history[e]

Below(e) == /\ replans[e] + Cardinality(Clear(e)) < MaxStrikes
            /\ replans[e] + Cardinality(Clear(e)) < MaxSameFp

Thrash == \A e \in Errors : Counted(e) /\ Below(e)

\* Both sets are finite.
LEMMA Finite ==
  ASSUME NEW e \in Errors
  PROVE  /\ IsFiniteSet(Inflight(e)) /\ Cardinality(Inflight(e)) \in Nat
         /\ IsFiniteSet(Clear(e)) /\ Cardinality(Clear(e)) \in Nat
         /\ Cardinality(Clear(e)) <= Cardinality(Inflight(e))
  <1>1. Inflight(e) \subseteq Agents /\ Clear(e) \subseteq Inflight(e)
    BY DEF Inflight, Clear
  <1>2. IsFiniteSet(Inflight(e))
    BY <1>1, CodingAssumption, FS_Subset
  <1> QED
    BY <1>1, <1>2, FS_Subset, FS_CardinalityType

\* Of a call, what counts here.
Alike(c, d) == /\ c.pc = d.pc /\ c.ticket = d.ticket /\ c.err = d.err
               /\ c.stop = d.stop /\ c.stale = d.stale

\* A step of one agent leaves the others where they are.
LEMMA OthersAlike ==
  ASSUME TypeOK, NEW a \in Agents, NEW c, NEW fs, Goto(a, c) \/ Change(fs, a, c)
  PROVE  /\ at'[a] = c
         /\ \A b \in Agents \ {a} : Alike(at'[b], at[b])
  <1>1. CASE Goto(a, c)
    BY <1>1 DEF Goto, TypeOK, Alike
  <1>2. CASE Change(fs, a, c)
    <2>1. at'[a] = c
      BY <1>2 DEF Change
    <2>2. ASSUME NEW b \in Agents \ {a}
          PROVE  Alike(at'[b], at[b])
      <3>1. at'[b] = IF at[b].pc = "verify" THEN [at[b] EXCEPT !.changed = @ \cup fs]
                     ELSE at[b]
        BY <1>2 DEF Change
      <3>2. at[b] \in CallRecords
        BY DEF TypeOK
      <3> QED
        BY <3>1, <3>2 DEF Alike, CallRecords
    <2> QED
      BY <2>1, <2>2
  <1> QED
    BY <1>1, <1>2

\* Tickets that leave the count, or failures that join it, do no harm.
LEMMA Shrink ==
  ASSUME Inv, Inv', NEW e \in Errors, Counted(e),
         Inflight(e)' \subseteq Inflight(e),
         replans'[e] = replans[e], history'[e] >= history[e]
  PROVE  /\ Counted(e)'
         /\ Below(e) /\ Clear(e)' \subseteq Clear(e) => Below(e)'
  <1>1. /\ replans[e] \in Nat /\ history[e] \in Nat /\ history'[e] \in Nat
        /\ MaxStrikes \in Nat /\ MaxSameFp \in Nat
    BY CodingAssumption DEF Inv, TypeOK
  <1>2. /\ Cardinality(Inflight(e)) \in Nat /\ Cardinality(Inflight(e)') \in Nat
        /\ Cardinality(Inflight(e)') <= Cardinality(Inflight(e))
    BY Finite, FS_Subset, FS_CardinalityType
  <1>3. Counted(e)'
    BY <1>1, <1>2 DEF Counted
  <1>4. ASSUME Below(e), Clear(e)' \subseteq Clear(e) PROVE Below(e)'
    <2>1. /\ Cardinality(Clear(e)) \in Nat /\ Cardinality(Clear(e)') \in Nat
          /\ Cardinality(Clear(e)') <= Cardinality(Clear(e))
      BY <1>4, Finite, FS_Subset, FS_CardinalityType
    <2> QED
      BY <1>1, <1>4, <2>1 DEF Below
  <1> QED
    BY <1>3, <1>4

\* So a step after which its agent does not count keeps the bound.
LEMMA Quiet ==
  ASSUME Inv, Inv', Thrash, NEW a \in Agents, ~Counting(at'[a]),
         \A b \in Agents \ {a} : Alike(at'[b], at[b]),
         replans' = replans, history' = history
  PROVE  Thrash'
  <1> SUFFICES ASSUME NEW e \in Errors PROVE Counted(e)' /\ Below(e)'
    BY DEF Thrash
  <1>1. \A b \in Agents \ {a} : Counting(at'[b]) = Counting(at[b])
    BY DEF Alike, Counting
  <1>2. Inflight(e)' \subseteq Inflight(e)
    BY <1>1 DEF Inflight, Alike
  <1>3. Clear(e)' \subseteq Clear(e)
    BY <1>2 DEF Clear, Inflight, Alike
  <1>4. history[e] \in Nat /\ history'[e] >= history[e]
    BY DEF Inv, TypeOK
  <1> QED
    BY <1>2, <1>3, <1>4, Shrink DEF Thrash

\* The counters that a quiet step leaves alone.
Rest == replans' = replans /\ history' = history

\* A call that begins keeps the bound, a reset starts it afresh.
LEMMA CallThrash ==
  ASSUME Inv, Inv', Thrash, NEW a \in Agents, Call(a)
  PROVE  Thrash'
  <1>1. ASSUME NEW c, Begin(a, c), c.ticket # "verify" PROVE Thrash'
    <2>1. Goto(a, c) /\ Rest
      BY <1>1 DEF Begin, Rest, breakerVars
    <2>2. at'[a] = c /\ \A b \in Agents \ {a} : Alike(at'[b], at[b])
      BY <2>1, OthersAlike DEF Inv
    <2> QED
      BY <1>1, <2>1, <2>2, Quiet DEF Counting, Rest
  <1>2. ASSUME NEW n \in Names, BeginEdit(a, n) PROVE Thrash'
    BY <1>1, <1>2 DEF BeginEdit, Edit, Idle
  <1>3. ASSUME NEW f \in Files, BeginWrite(a, f) PROVE Thrash'
    BY <1>1, <1>3 DEF BeginWrite, Edit, Idle
  <1>4. ASSUME NEW names \in Patches, BeginPatch(a, names) PROVE Thrash'
    BY <1>1, <1>4 DEF BeginPatch, Patch, Idle
  <1>5. ASSUME NEW n \in Names, BeginReport(a, n) PROVE Thrash'
    BY <1>1, <1>5 DEF BeginReport, Idle
  <1>6. ASSUME NEW n \in Names, BeginTicket(a, n) PROVE Thrash'
    BY <1>1, <1>6 DEF BeginTicket, Edit, Patch, Idle
  <1>7. ASSUME NEW n \in Names, ReportSuccess(a, n) \/ ResetFile(a, n) PROVE Thrash'
    <2>1. at' = at /\ Rest /\ at[a] = Idle
      BY <1>7 DEF ReportSuccess, ResetFile, Cleared, Rest
    <2> QED
      BY <2>1, Quiet, IdleOK DEF Alike, Rest
  <1>8. CASE ResetAll(a)
    <2> SUFFICES ASSUME NEW e \in Errors PROVE Counted(e)' /\ Below(e)'
      BY DEF Thrash
    <2>1. ASSUME NEW b \in Agents
          PROVE  Counting(at'[b]) => at'[b].stale
      <3>1. at'[b] = [at[b] EXCEPT !.stale = @ \/ Counting(at[b])]
        BY <1>8 DEF ResetAll
      <3>2. at[b] \in CallRecords
        BY DEF Inv, TypeOK
      <3> QED
        BY <3>1, <3>2 DEF CallRecords, Counting
    <2>2. Inflight(e)' = {} /\ Clear(e)' = {}
      BY <2>1 DEF Inflight, Clear
    <2>3. replans'[e] = 0 /\ history'[e] = 0
      BY <1>8 DEF ResetAll
    <2>4. Cardinality({}) = 0
      BY FS_EmptySet
    <2> QED
      BY <2>2, <2>3, <2>4, CodingAssumption DEF Counted, Below
  <1>9. CASE BeginVerify(a) \/ BeginCommit(a)
    BY <1>1, <1>9 DEF BeginVerify, BeginCommit, Idle
  <1> QED
    BY <1>2, <1>3, <1>4, <1>5, <1>6, <1>7, <1>8, <1>9 DEF Call

\* A step that moves its agent to a call that does not count.
LEMMA MoveThrash ==
  ASSUME Inv, Inv', Thrash, NEW a \in Agents, NEW c, NEW fs,
         Goto(a, c) \/ Change(fs, a, c), ~Counting(c), Rest
  PROVE  Thrash'
  <1>1. at'[a] = c /\ \A b \in Agents \ {a} : Alike(at'[b], at[b])
    BY OthersAlike DEF Inv
  <1> QED
    BY <1>1, Quiet DEF Rest

\* So do the steps of an edit ...
LEMMA EditThrash ==
  ASSUME Inv, Inv', Thrash, NEW a \in Agents, EditStep(a)
  PROVE  Thrash'
  <1> DEFINE c == at[a]
  <1>1. c \in CallRecords
    BY DEF Inv, TypeOK
  <1>2. ~Counting(Return(c))
    BY <1>1, ReturnOK
  <1>3. /\ ~Counting([c EXCEPT !.pc = IF @ = "edit" THEN "edited" ELSE "record"])
        /\ \A e \in Errors : ~Counting([c EXCEPT !.pc = "charge", !.err = {e}])
        /\ ~Counting([c EXCEPT !.pc = "record"])
    BY <1>1 DEF CallRecords, Counting
  <1>4. CASE EditWrites(a)
    BY <1>3, <1>4, MoveThrash DEF EditWrites, Rest, breakerVars
  <1>5. CASE EditRejected(a)
    BY <1>3, <1>5, MoveThrash DEF EditRejected, Rest, breakerVars
  <1>6. CASE EditImpossible(a)
    BY <1>2, <1>6, MoveThrash DEF EditImpossible, Rest, breakerVars
  <1>7. CASE EditSucceeds(a)
    BY <1>3, <1>7, MoveThrash DEF EditSucceeds, Cleared, Rest
  <1>8. CASE EditRecorded(a)
    BY <1>2, <1>8, MoveThrash DEF EditRecorded, Rest, breakerVars
  <1> QED
    BY <1>4, <1>5, <1>6, <1>7, <1>8 DEF EditStep

\* ... and those of a patch.
LEMMA PatchThrash ==
  ASSUME Inv, Inv', Thrash, NEW a \in Agents, PatchStep(a)
  PROVE  Thrash'
  <1> DEFINE c == at[a]
             more == [c EXCEPT !.pc = "patch", !.todo = Tail(@),
                               !.done = Append(@, Head(c.todo))]
             fail(e) == [c EXCEPT !.pc = "charge", !.todo = c.done, !.done = <<>>,
                                  !.err = {e}]
  <1>1. c \in CallRecords
    BY DEF Inv, TypeOK
  <1>2. ~Counting(Return(c))
    BY <1>1, ReturnOK
  <1>3. more.pc = "patch" /\ \A e \in Errors : fail(e).pc = "charge"
    BY <1>1 DEF CallRecords
  <1>4. ~Counting(more) /\ \A e \in Errors : ~Counting(fail(e))
    BY <1>3 DEF Counting
  <1>5. /\ ~Counting([c EXCEPT !.pc = "patched"])
        /\ ~Counting([c EXCEPT !.pc = "applied"])
    BY <1>1 DEF CallRecords, Counting
  <1>6. CASE PatchWrites(a)
    BY <1>5, <1>6, MoveThrash DEF PatchWrites, Rest, breakerVars
  <1>7. CASE PatchRecorded(a)
    BY <1>5, <1>7, MoveThrash DEF PatchRecorded, Rest, breakerVars
  <1>8. CASE PatchApplied(a)
    <2>1. Goto(a, Return(c)) \/ Goto(a, more)
      BY <1>8 DEF PatchApplied
    <2> HIDE DEF more
    <2> QED
      BY <1>2, <1>4, <1>8, <2>1, MoveThrash DEF PatchApplied, Cleared, Rest
  <1>9. CASE PatchFails(a)
    <2>1. PICK e \in Errors :
            \E fs : Change(fs, a, IF c.done = <<>> THEN Return(c) ELSE fail(e))
      BY <1>9 DEF PatchFails
    <2>2. \E fs : Change(fs, a, Return(c)) \/ Change(fs, a, fail(e))
      BY <2>1
    <2> HIDE DEF fail
    <2> QED
      BY <1>2, <1>4, <1>9, <2>2, MoveThrash DEF PatchFails, Rest, breakerVars
  <1> QED
    BY <1>6, <1>7, <1>8, <1>9 DEF PatchStep

\* One element more makes a finite set larger by one at most.
LEMMA AddOne ==
  ASSUME NEW S, IsFiniteSet(S), NEW x
  PROVE  /\ IsFiniteSet(S \cup {x}) /\ Cardinality(S \cup {x}) \in Nat
         /\ Cardinality(S \cup {x}) <= Cardinality(S) + 1
  <1>1. Cardinality(S) \in Nat
    BY FS_CardinalityType
  <1>2. CASE x \in S
    <2>1. S \cup {x} = S
      BY <1>2
    <2>2. Cardinality(S \cup {x}) = Cardinality(S)
      BY <2>1
    <2>3. IsFiniteSet(S \cup {x})
      BY <2>1
    <2> QED
      BY <1>1, <2>2, <2>3
  <1>3. CASE x \notin S
    BY <1>1, <1>3, FS_AddElement
  <1> QED
    BY <1>2, <1>3

\* The breaker counts the ticket with its failure, and lets it go on only
\* while the count is below both thresholds.
LEMMA BreakerThrash ==
  ASSUME Inv, Inv', Thrash, NEW a \in Agents, BreakerStep(a)
  PROVE  Thrash'
  <1> DEFINE c == at[a]
  <1>0. c.pc \in {"charge", "judge", "rollback"}
    BY DEF BreakerStep, Charge, Judge, Rollback
  <1>1. c \in CallRecords /\ WellFormed(c) /\ c.todo # <<>>
    BY <1>0, HeadOK DEF Handling, Inv
  <1>2. PICK e \in Errors : c.err = {e}
    BY <1>0, <1>1 DEF WellFormed, Failing
  <1> DEFINE nc == NextCharge(c)
  <1>3. /\ nc \in CallRecords
        /\ Counting(nc) => /\ nc.pc = "conclude" /\ c.ticket = "verify"
                           /\ nc.err = c.err /\ nc.stale = c.stale /\ nc.stop = c.stop
    BY <1>1, <1>2, NextChargeOK
  <1> HIDE DEF nc
  <1> SUFFICES ASSUME NEW x \in Errors PROVE Counted(x)' /\ Below(x)'
    BY DEF Thrash
  <1>4. /\ Counted(x) /\ Below(x) /\ replans[x] \in Nat /\ history[x] \in Nat
        /\ history[e] \in Nat
    BY DEF Thrash, Inv, TypeOK
  <1>5. CASE Charge(a)
    <2> DEFINE d == [c EXCEPT !.pc = "judge"]
    <2>1. /\ d.pc = "judge" /\ d.ticket = c.ticket /\ d.err = c.err
          /\ d.stale = c.stale
      BY <1>1 DEF CallRecords
    <2>2. Goto(a, d) /\ replans' = replans
          /\ history' = [history EXCEPT ![e] = @ + 1]
      BY <1>5, <1>2 DEF Charge
    <2>3. at'[a] = d /\ \A b \in Agents \ {a} : Alike(at'[b], at[b])
      BY <2>2, OthersAlike DEF Inv
    <2>4. Clear(x)' \subseteq Clear(x)
      BY <2>1, <2>3 DEF Clear, Inflight, Alike, Counting
    <2>5. CASE x = e
      <3>1. Inflight(x)' \subseteq Inflight(x) \cup {a}
        BY <2>3 DEF Inflight, Alike, Counting
      <3>2. IsFiniteSet(Inflight(x)) /\ Cardinality(Inflight(x)) \in Nat
        BY Finite
      <3>3. /\ IsFiniteSet(Inflight(x) \cup {a})
            /\ Cardinality(Inflight(x) \cup {a}) \in Nat
            /\ Cardinality(Inflight(x) \cup {a}) <= Cardinality(Inflight(x)) + 1
        BY <3>2, AddOne
      <3>4. /\ Cardinality(Inflight(x)') \in Nat
            /\ Cardinality(Inflight(x)') <= Cardinality(Inflight(x)) + 1
        <4>1. /\ IsFiniteSet(Inflight(x)')
              /\ Cardinality(Inflight(x)') <= Cardinality(Inflight(x) \cup {a})
          BY <3>1, <3>3, FS_Subset
        <4>2. Cardinality(Inflight(x)') \in Nat
          BY <4>1, FS_CardinalityType
        <4> QED
          BY <3>2, <3>3, <4>1, <4>2
      <3>5. history'[x] = history[x] + 1
        BY <2>2, <2>5 DEF Inv, TypeOK
      <3>6. Counted(x)'
        BY <1>4, <2>2, <3>2, <3>4, <3>5 DEF Counted
      <3>7. /\ Cardinality(Clear(x)) \in Nat /\ Cardinality(Clear(x)') \in Nat
            /\ Cardinality(Clear(x)') <= Cardinality(Clear(x))
        BY <2>4, Finite, FS_Subset, FS_CardinalityType
      <3>8. Below(x)'
        BY <1>4, <2>2, <3>7, CodingAssumption DEF Below
      <3> QED
        BY <3>6, <3>8
    <2>6. CASE x # e
      <3>1. Inflight(x)' \subseteq Inflight(x)
        BY <1>2, <2>1, <2>3, <2>6 DEF Inflight, Alike, Counting
      <3>2. history'[x] = history[x]
        BY <2>2, <2>6 DEF Inv, TypeOK
      <3> QED
        BY <1>4, <2>2, <2>4, <3>1, <3>2, Shrink
    <2> QED
      BY <2>5, <2>6
  <1>6. CASE Judge(a)
    <2>1. replans' = replans /\ history' = history /\ c.pc = "judge"
      BY <1>6 DEF Judge
    <2>2. CASE Trips(Head(c.todo), e)
      <3> DEFINE d == [c EXCEPT !.pc = "rollback", !.stop = TRUE]
      <3>1. Goto(a, d)
        BY <1>2, <1>6, <2>2 DEF Judge
      <3>2. d.pc = "rollback" /\ d.ticket = c.ticket /\ d.err = c.err /\ d.stale = c.stale
        BY <1>1 DEF CallRecords
      <3>3. at'[a] = d /\ \A b \in Agents \ {a} : Alike(at'[b], at[b])
        BY <3>1, OthersAlike DEF Inv
      <3> HIDE DEF d
      <3>4. Inflight(x)' \subseteq Inflight(x)
        BY <2>1, <3>2, <3>3 DEF Inflight, Alike, Counting
      <3>5. Clear(x)' \subseteq Clear(x)
        BY <3>2, <3>3 DEF Clear, Inflight, Alike, Counting
      <3> QED
        BY <1>4, <2>1, <3>4, <3>5, Shrink
    <2>3. CASE ~Trips(Head(c.todo), e)
      <3> DEFINE d == [nc EXCEPT !.stop = history[e] >= MaxSameFp]
      <3>1. Goto(a, d)
        BY <1>2, <1>6, <2>3 DEF Judge, nc
      <3>2. /\ d.pc = nc.pc /\ d.ticket = nc.ticket /\ d.err = nc.err
            /\ d.stale = nc.stale /\ d.stop = (history[e] >= MaxSameFp)
        BY <1>3 DEF CallRecords
      <3>3. at'[a] = d /\ \A b \in Agents \ {a} : Alike(at'[b], at[b])
        BY <3>1, OthersAlike DEF Inv
      <3> HIDE DEF d
      <3>4. Counting(d) => /\ Counting(nc) /\ d.err = c.err /\ d.stale = c.stale
                           /\ Counting(c)
        BY <1>3, <2>1, <3>2 DEF Counting
      <3>5. Inflight(x)' \subseteq Inflight(x)
        BY <3>3, <3>4 DEF Inflight, Alike, Counting
      <3>6. Counted(x)'
        BY <1>4, <2>1, <3>5, Shrink
      <3>7. CASE x # e \/ history[e] >= MaxSameFp
        <4>1. d.stop \/ (Counting(d) => d.err # {x})
          BY <1>2, <3>2, <3>4, <3>7
        <4>2. a \notin Clear(x)'
          BY <3>3, <4>1 DEF Clear, Inflight
        <4>3. \A b \in Agents \ {a} : b \in Clear(x)' => b \in Clear(x)
          BY <3>3 DEF Clear, Inflight, Alike, Counting
        <4>4. Clear(x)' \subseteq Clear(x)
          BY <4>2, <4>3 DEF Clear, Inflight
        <4> QED
          BY <1>4, <2>1, <3>5, <4>4, Shrink
      <3>8. CASE x = e /\ ~(history[e] >= MaxSameFp)
        <4>1. history[x] < MaxSameFp /\ history[x] < MaxStrikes
          BY <1>4, <2>3, <3>8, CodingAssumption DEF Trips
        <4>2. Clear(x)' \subseteq Inflight(x)
          BY <3>5 DEF Clear
        <4>3. /\ Cardinality(Inflight(x)) \in Nat /\ Cardinality(Clear(x)') \in Nat
              /\ Cardinality(Clear(x)') <= Cardinality(Inflight(x))
          BY <4>2, Finite, FS_Subset, FS_CardinalityType
        <4>4. Below(x)'
          BY <1>4, <2>1, <4>1, <4>3, CodingAssumption DEF Below, Counted
        <4> QED
          BY <3>6, <4>4
      <3> QED
        BY <3>7, <3>8
    <2> QED
      BY <2>2, <2>3
  <1>7. CASE Rollback(a)
    <2>1. replans' = replans /\ history' = history /\ c.pc = "rollback"
      BY <1>7 DEF Rollback, breakerVars
    <2>2. c.stop
      BY <1>1, <2>1 DEF WellFormed
    <2>3. Goto(a, nc) \/ \E fs : Change(fs, a, nc)
      BY <1>7 DEF Rollback, nc
    <2>4. at'[a] = nc /\ \A b \in Agents \ {a} : Alike(at'[b], at[b])
      BY <2>3, OthersAlike DEF Inv
    <2>5. Counting(nc) => Counting(c) /\ nc.err = c.err /\ nc.stale = c.stale /\ nc.stop
      BY <1>3, <2>1, <2>2 DEF Counting
    <2>6. Inflight(x)' \subseteq Inflight(x)
      BY <2>4, <2>5 DEF Inflight, Alike, Counting
    <2>7. Clear(x)' \subseteq Clear(x)
      BY <2>4, <2>5 DEF Clear, Inflight, Alike, Counting
    <2> QED
      BY <1>4, <2>1, <2>6, <2>7, Shrink
  <1> QED
    BY <1>5, <1>6, <1>7 DEF BreakerStep

\* An answer moves the ticket from the one count to the other.
LEMMA VerifyThrash ==
  ASSUME Inv, Inv', Thrash, NEW a \in Agents, VerifyStep(a)
  PROVE  Thrash'
  <1> DEFINE c == at[a]
  <1>1. c \in CallRecords /\ WellFormed(c)
    BY DEF Inv, TypeOK, CallsOK
  <1>2. CASE StartTests(a)
    <2>1. ~Counting([c EXCEPT !.pc = "verify"])
      BY <1>1 DEF CallRecords, Counting
    <2> QED
      BY <1>2, <2>1, MoveThrash DEF StartTests, Rest, breakerVars
  <1>3. CASE VerifyEnds(a)
    <2> DEFINE fail(n, e) == [Idle EXCEPT !.pc = "charge", !.todo = <<n>>, !.err = {e},
                                          !.ticket = "verify"]
    <2>1. \/ Goto(a, Idle)
          \/ \E n \in c.track, e \in Errors : Goto(a, fail(n, e))
      BY <1>3 DEF VerifyEnds
    <2>2. \A n, e : ~Counting(fail(n, e))
      BY DEF Idle, Counting
    <2> HIDE DEF fail
    <2> QED
      BY <1>3, <2>1, <2>2, IdleOK, MoveThrash DEF VerifyEnds, Rest, breakerVars
  <1>4. CASE Conclude(a)
    <2>1. PICK e \in Errors : c.err = {e}
      BY <1>1, <1>4 DEF Conclude, WellFormed, Failing
    <2>2. c.pc = "conclude" /\ c.ticket = "verify" /\ Counting(c)
      BY <1>1, <1>4 DEF Conclude, WellFormed, Counting
    <2>3. Goto(a, Idle) /\ history' = history
      BY <1>4 DEF Conclude, breakerVars
    <2>4. at'[a] = Idle /\ \A b \in Agents \ {a} : Alike(at'[b], at[b])
      BY <2>3, OthersAlike DEF Inv
    <2> SUFFICES ASSUME NEW x \in Errors PROVE Counted(x)' /\ Below(x)'
      BY DEF Thrash
    <2>5. /\ Counted(x) /\ Below(x) /\ replans[x] \in Nat /\ history[x] \in Nat
      BY DEF Thrash, Inv, TypeOK
    <2>6. Inflight(x)' \subseteq Inflight(x) /\ Clear(x)' \subseteq Clear(x)
      BY <2>4, IdleOK DEF Inflight, Clear, Alike, Counting
    <2>7. CASE x = e /\ ~c.stop /\ ~c.stale
      <3>1. replans'[x] = replans[x] + 1
        BY <1>4, <2>1, <2>7 DEF Conclude
      <3>2. a \in Clear(x) /\ a \in Inflight(x)
        BY <2>1, <2>2, <2>7 DEF Clear, Inflight
      <3>3. Inflight(x)' \subseteq Inflight(x) \ {a} /\ Clear(x)' \subseteq Clear(x) \ {a}
        BY <2>4, <2>6, IdleOK DEF Inflight, Clear
      <3>4. /\ IsFiniteSet(Inflight(x)) /\ Cardinality(Inflight(x)) \in Nat
            /\ IsFiniteSet(Clear(x)) /\ Cardinality(Clear(x)) \in Nat
        BY Finite
      <3>5. /\ IsFiniteSet(Inflight(x) \ {a})
            /\ Cardinality(Inflight(x) \ {a}) = Cardinality(Inflight(x)) - 1
            /\ IsFiniteSet(Clear(x) \ {a})
            /\ Cardinality(Clear(x) \ {a}) = Cardinality(Clear(x)) - 1
        BY <3>2, <3>4, FS_RemoveElement
      <3>6. /\ Cardinality(Inflight(x)') \in Nat
            /\ Cardinality(Inflight(x)') <= Cardinality(Inflight(x)) - 1
        BY <3>3, <3>5, FS_Subset, FS_CardinalityType
      <3>7. /\ Cardinality(Clear(x)') \in Nat
            /\ Cardinality(Clear(x)') <= Cardinality(Clear(x)) - 1
        BY <3>3, <3>5, FS_Subset, FS_CardinalityType
      <3>8. Counted(x)'
        BY <2>3, <2>5, <3>1, <3>4, <3>6 DEF Counted
      <3>9. Below(x)'
        BY <2>5, <3>1, <3>4, <3>7, CodingAssumption DEF Below
      <3> QED
        BY <3>8, <3>9
    <2>8. CASE ~(x = e /\ ~c.stop /\ ~c.stale)
      <3>1. replans'[x] = replans[x]
        BY <1>4, <2>1, <2>8 DEF Conclude
      <3> QED
        BY <2>3, <2>5, <2>6, <3>1, Shrink
    <2> QED
      BY <2>7, <2>8
  <1>5. CASE CommitEnds(a)
    BY <1>5, IdleOK, MoveThrash DEF CommitEnds, Rest, breakerVars
  <1> QED
    BY <1>2, <1>3, <1>4, <1>5 DEF VerifyStep

\* Between two resets fewer tickets than either threshold are answered with
\* a new plan for one failure, for any number of threads.
THEOREM NoThrashCorrect == Spec => []NoThrash
  <1>1. Init => Thrash
    <2> SUFFICES ASSUME Init, NEW e \in Errors PROVE Counted(e) /\ Below(e)
      BY DEF Thrash
    <2>1. Inflight(e) = {} /\ Clear(e) = {}
      BY IdleOK DEF Init, Inflight, Clear
    <2>2. Cardinality({}) = 0 /\ replans[e] = 0 /\ history[e] = 0
      BY FS_EmptySet DEF Init
    <2> QED
      BY <2>1, <2>2, CodingAssumption DEF Counted, Below
  <1>2. Inv /\ Inv' /\ Thrash /\ [Next]_vars => Thrash'
    <2> SUFFICES ASSUME Inv, Inv', Thrash, [Next]_vars PROVE Thrash'
      OBVIOUS
    <2>1. CASE UNCHANGED vars
      BY <2>1 DEF vars, breakerVars, Thrash, Counted, Below, Inflight, Clear
    <2>2. CASE Next
      BY <2>2, CallThrash, EditThrash, PatchThrash, BreakerThrash, VerifyThrash DEF Next
    <2> QED
      BY <2>1, <2>2
  <1>3. Inv /\ Thrash => NoThrash
    <2> SUFFICES ASSUME Inv, Thrash, NEW e \in Errors
                 PROVE  replans[e] < MaxStrikes /\ replans[e] < MaxSameFp
      BY DEF NoThrash
    <2>1. Cardinality(Clear(e)) \in Nat /\ replans[e] \in Nat /\ Below(e)
      BY Finite DEF Inv, TypeOK, Thrash
    <2> QED
      BY <2>1, CodingAssumption DEF Below
  <1> QED
    BY <1>1, <1>2, <1>3, InvCorrect, PTL DEF Spec

(***************************************************************************)
(* The limit.  A strike is put on record in one step and judged in a later *)
(* one, without a lock; in between, other threads may clear, reset, charge *)
(* or trip the same name.                                                  *)
(***************************************************************************)

\* The calls that have put a strike of name n on record and will judge it.
Judging(n) == {a \in Agents : at[a].pc = "judge" /\ Head(at[a].todo) = n}

\* A name whose strikes have reached the limit is tripped, or some call is
\* about to trip it (circuit.py after_edit).
StrikeOut ==
  \A n \in Names : strikes[n] >= MaxStrikes => n \in tripped \/ Judging(n) # {}

\* A step of one agent leaves the others at their places and names.
LEMMA OthersStay ==
  ASSUME TypeOK, NEW a \in Agents, NEW c, NEW fs, Goto(a, c) \/ Change(fs, a, c)
  PROVE  \A b \in Agents \ {a} : at'[b].pc = at[b].pc /\ at'[b].todo = at[b].todo
  <1>1. CASE Goto(a, c)
    BY <1>1 DEF Goto, TypeOK
  <1>2. CASE Change(fs, a, c)
    <2> SUFFICES ASSUME NEW b \in Agents \ {a}
                 PROVE  at'[b].pc = at[b].pc /\ at'[b].todo = at[b].todo
      OBVIOUS
    <2>1. at'[b] = IF at[b].pc = "verify" THEN [at[b] EXCEPT !.changed = @ \cup fs]
                   ELSE at[b]
      BY <1>2 DEF Change
    <2>2. at[b] \in CallRecords
      BY DEF TypeOK
    <2> QED
      BY <2>1, <2>2 DEF CallRecords
  <1> QED
    BY <1>1, <1>2

\* What a step does to the tables that puts no strike on record.
NoStrike ==
  \A n \in Names : \/ strikes'[n] = 0
                   \/ strikes'[n] = strikes[n] /\ (n \in tripped => n \in tripped')

\* Such a step keeps the limit, unless it ends a judgement.
LEMMA NoStrikeOK ==
  ASSUME StrikeOut, NoStrike, \A n \in Names : Judging(n) \subseteq Judging(n)'
  PROVE  StrikeOut'
  BY CodingAssumption DEF StrikeOut, NoStrike

\* An agent that does not judge moves on: no judgement ends.
LEMMA MoveStrike ==
  ASSUME Inv, StrikeOut, NoStrike, NEW a \in Agents, NEW c, NEW fs,
         at[a].pc # "judge", Goto(a, c) \/ Change(fs, a, c)
  PROVE  StrikeOut'
  <1>1. \A b \in Agents \ {a} : at'[b].pc = at[b].pc /\ at'[b].todo = at[b].todo
    BY OthersStay DEF Inv
  <1>2. \A n \in Names : Judging(n) \subseteq Judging(n)'
    BY <1>1 DEF Judging
  <1> QED
    BY <1>2, NoStrikeOK

\* Tables that nobody touches, or of which one name is cleared.
LEMMA TablesQuiet == UNCHANGED breakerVars => NoStrike
  BY DEF NoStrike, breakerVars
LEMMA ClearedQuiet ==
  ASSUME TypeOK, NEW n \in Names, Cleared(n)
  PROVE  NoStrike
  BY DEF NoStrike, Cleared, TypeOK

\* Calls that begin keep the limit, and so do clearing and resetting.
LEMMA CallStrike ==
  ASSUME Inv, StrikeOut, NEW a \in Agents, Call(a)
  PROVE  StrikeOut'
  <1>1. ASSUME NEW c, Begin(a, c) PROVE StrikeOut'
    <2>1. NoStrike /\ at[a].pc # "judge"
      BY <1>1, TablesQuiet DEF Begin, Idle
    <2> QED
      BY <1>1, <2>1, MoveStrike DEF Begin
  <1>2. ASSUME NEW n \in Names, BeginEdit(a, n) PROVE StrikeOut'
    BY <1>1, <1>2 DEF BeginEdit
  <1>3. ASSUME NEW f \in Files, BeginWrite(a, f) PROVE StrikeOut'
    BY <1>1, <1>3 DEF BeginWrite
  <1>4. ASSUME NEW names \in Patches, BeginPatch(a, names) PROVE StrikeOut'
    BY <1>1, <1>4 DEF BeginPatch
  <1>5. ASSUME NEW n \in Names, BeginReport(a, n) PROVE StrikeOut'
    BY <1>1, <1>5 DEF BeginReport
  <1>6. ASSUME NEW n \in Names, BeginTicket(a, n) PROVE StrikeOut'
    BY <1>1, <1>6 DEF BeginTicket
  <1>7. ASSUME NEW n \in Names, ReportSuccess(a, n) \/ ResetFile(a, n) PROVE StrikeOut'
    <2>1. at' = at /\ \A m \in Names : Judging(m) \subseteq Judging(m)'
      BY <1>7 DEF ReportSuccess, ResetFile, Judging
    <2>2. CASE ReportSuccess(a, n)
      BY <2>1, <2>2, ClearedQuiet, NoStrikeOK DEF ReportSuccess, Inv
    <2>3. CASE ResetFile(a, n)
      <3>1. NoStrike
        BY <2>3 DEF ResetFile, NoStrike, Inv, TypeOK
      <3> QED
        BY <2>1, <3>1, NoStrikeOK
    <2> QED
      BY <1>7, <2>2, <2>3
  <1>8. CASE ResetAll(a)
    BY <1>8, CodingAssumption DEF ResetAll, StrikeOut
  <1>9. CASE BeginVerify(a) \/ BeginCommit(a)
    BY <1>1, <1>9 DEF BeginVerify, BeginCommit
  <1> QED
    BY <1>2, <1>3, <1>4, <1>5, <1>6, <1>7, <1>8, <1>9 DEF Call

\* So do the steps of edits, patches and test runs.
LEMMA EditStrike ==
  ASSUME Inv, StrikeOut, NEW a \in Agents, EditStep(a) \/ PatchStep(a)
  PROVE  StrikeOut'
  <1>0. at[a].pc \in Handling => Head(at[a].todo) \in Names
    BY HeadOK DEF Inv
  <1>1. CASE EditWrites(a) \/ PatchWrites(a)
    BY <1>1, TablesQuiet, MoveStrike DEF EditWrites, PatchWrites
  <1>2. CASE EditRejected(a) \/ EditImpossible(a) \/ EditRecorded(a) \/ PatchRecorded(a)
    <2>1. NoStrike /\ at[a].pc # "judge" /\ \E c : Goto(a, c)
      BY <1>2, TablesQuiet
      DEF EditRejected, EditImpossible, EditRecorded, PatchRecorded
    <2> QED
      BY <2>1, MoveStrike
  <1>3. CASE EditSucceeds(a) \/ PatchApplied(a)
    <2>1. at[a].pc \in {"edited", "applied"} /\ \E c : Goto(a, c)
      BY <1>3 DEF EditSucceeds, PatchApplied
    <2>2. NoStrike
      BY <1>0, <1>3, <2>1, ClearedQuiet DEF EditSucceeds, PatchApplied, Handling, Inv
    <2> QED
      BY <2>1, <2>2, MoveStrike
  <1>4. CASE PatchFails(a)
    <2>1. at[a].pc = "patch" /\ NoStrike /\ \E fs, c : Change(fs, a, c)
      BY <1>4, TablesQuiet DEF PatchFails
    <2> QED
      BY <2>1, MoveStrike
  <1> QED
    BY <1>1, <1>2, <1>3, <1>4 DEF EditStep, PatchStep

LEMMA VerifyStrike ==
  ASSUME Inv, StrikeOut, NEW a \in Agents, VerifyStep(a)
  PROVE  StrikeOut'
  <1>1. NoStrike
    BY TablesQuiet DEF VerifyStep, StartTests, VerifyEnds, Conclude, CommitEnds
  <1>2. at[a].pc # "judge" /\ \E c : Goto(a, c)
    BY DEF VerifyStep, StartTests, VerifyEnds, Conclude, CommitEnds
  <1> QED
    BY <1>1, <1>2, MoveStrike

\* The breaker: who charges a name goes on to judge it, and who judges it
\* reads every strike that is on record by then.
LEMMA BreakerStrike ==
  ASSUME Inv, StrikeOut, NEW a \in Agents, BreakerStep(a)
  PROVE  StrikeOut'
  <1> DEFINE c == at[a]
             n == Head(c.todo)
  <1>0. c.pc \in {"charge", "judge", "rollback"}
    BY DEF BreakerStep, Charge, Judge, Rollback
  <1>1. c \in CallRecords /\ n \in Names
    BY <1>0, HeadOK DEF Handling, Inv
  <1>2. CASE Charge(a)
    <2>1. /\ at' = [at EXCEPT ![a] = [c EXCEPT !.pc = "judge"]] /\ c.pc = "charge"
          /\ strikes' = [strikes EXCEPT ![n] = @ + 1] /\ tripped' = tripped
      BY <1>2 DEF Charge, Goto
    <2>2. at'[a].pc = "judge" /\ at'[a].todo = c.todo
      BY <1>1, <2>1 DEF CallRecords, Inv, TypeOK
    <2>3. a \in Judging(n)'
      BY <2>2 DEF Judging
    <2>4. \A b \in Agents \ {a} : at'[b] = at[b]
      BY <2>1 DEF Inv, TypeOK
    <2>5. \A m \in Names : Judging(m) \subseteq Judging(m)'
      BY <2>1, <2>4 DEF Judging
    <2>6. \A m \in Names \ {n} : strikes'[m] = strikes[m]
      BY <2>1 DEF Inv, TypeOK
    <2> QED
      BY <2>1, <2>3, <2>5, <2>6 DEF StrikeOut
  <1>3. CASE Judge(a)
    <2>1. strikes' = strikes /\ tripped \subseteq tripped'
      BY <1>3 DEF Judge
    <2>2. strikes[n] >= MaxStrikes => n \in tripped'
      BY <1>3 DEF Judge, Trips
    <2>3. \E d : Goto(a, d)
      BY <1>3 DEF Judge
    <2>4. \A b \in Agents \ {a} : at'[b].pc = at[b].pc /\ at'[b].todo = at[b].todo
      BY <2>3, OthersStay DEF Inv
    <2>5. \A m \in Names \ {n} : Judging(m) \subseteq Judging(m)'
      BY <2>4 DEF Judging
    <2> QED
      BY <2>1, <2>2, <2>5 DEF StrikeOut
  <1>4. CASE Rollback(a)
    <2>1. c.pc = "rollback" /\ NoStrike
      BY <1>4, TablesQuiet DEF Rollback
    <2>2. \E fs, d : Goto(a, d) \/ Change(fs, a, d)
      BY <1>4 DEF Rollback
    <2> QED
      BY <2>1, <2>2, MoveStrike
  <1> QED
    BY <1>2, <1>3, <1>4 DEF BreakerStep

\* No strike is lost between the counters: in every reachable state a name
\* at the limit is tripped, or is about to be, for any number of threads.
THEOREM StrikeOutCorrect == Spec => []StrikeOut
  <1>1. Init => StrikeOut
    BY CodingAssumption DEF Init, StrikeOut
  <1>2. Inv /\ StrikeOut /\ [Next]_vars => StrikeOut'
    <2> SUFFICES ASSUME Inv, StrikeOut, [Next]_vars PROVE StrikeOut'
      OBVIOUS
    <2>1. CASE UNCHANGED vars
      BY <2>1 DEF vars, breakerVars, StrikeOut, Judging
    <2>2. CASE Next
      BY <2>2, CallStrike, EditStrike, BreakerStrike, VerifyStrike DEF Next
    <2> QED
      BY <2>1, <2>2
  <1> QED
    BY <1>1, <1>2, InvCorrect, PTL DEF Spec
=============================================================================
